---- MODULE Spec2Model ----
(***************************************************************************)
(* NovaCore: the turn pipeline (IntentBuilder, InnerVoice, Initiative),    *)
(* NeedsEngine, MoodEngine, FusionEngine, EmotionEngine + TimeEngine and   *)
(* the MemoryConsolidationEngine, as state machines.                       *)
(*                                                                         *)
(* Scalars of the program are floats in [0,1].  They are modelled in fixed *)
(* point: One stands for 1.0 in the intent pipeline and the needs engine   *)
(* (thousandths), MemOne for 1.0 in the memory engine (ten-thousandths).   *)
(* Every input value is chosen so that each product of the code is exact.  *)
(***************************************************************************)
EXTENDS Integers, Sequences, FiniteSets, TLC

One == 1000

None == "None"

Max2(a, b) == IF a >= b THEN a ELSE b

Min2(a, b) == IF a <= b THEN a ELSE b

\* x * (num/den), exact on the grids used below
Mul(x, num, den) == (x * num) \div den

InUnit(v) == 0 <= v /\ v <= One

(***************************************************************************)
(* intent_builder.py                                                       *)
(***************************************************************************)
\* The dataclasses IntentContext and Intent as declared (fields without a
\* default after fields with one, no nsfw_ready field on Intent) are rejected
\* when the module is imported; the model follows the bodies of the functions
\* as written, with nsfw_ready as one more field of the Intent.
clamp(v) == Max2(0, Min2(One, v))

\* NeedsSnapshot.pressure of intent_builder.py (no affection field there)
pressure(n) == Max2(Max2(n.hunger, n.thirst), Max2(n.fatigue, n.bladder))

_calc_openness(cx) ==
    LET b0 == Mul(cx.relationship.trust, 5, 10) + Mul(cx.relationship.safety, 3, 10)
        b1 == b0 + Mul(cx.relationship.attachment, 2, 10)
        b2 == IF cx.maturity < 300 THEN b1 + 50
              ELSE IF cx.maturity > 700 THEN b1 + 100 ELSE b1
        b3 == IF cx.mood.valence < 300 /\ cx.relationship.trust < 500
              THEN b2 - 200 ELSE b2
        b4 == b3 + Mul(cx.emotion.intensity, 15, 100)
        b5 == b4 - Mul(pressure(cx.needs), 15, 100)
    IN clamp(b5)

\* _calc_vulnerability without the low-trust penalty
_calc_vulnerability_unguarded(cx, openness) ==
    LET v0 == openness
        v1 == IF cx.emotion.fusion \in {"insecure", "ashamed", "guilty"}
              THEN v0 - 200 ELSE v0
        v2 == IF cx.mood.label \in {"warm", "soft", "affectionate"}
              THEN v1 + Mul(cx.relationship.attachment, 3, 10) ELSE v1
        v3 == v2 + Mul(cx.maturity - 500, 3, 10)
    IN clamp(v3)

_calc_vulnerability(cx, openness) ==
    LET v0 == openness
        v1 == IF cx.emotion.fusion \in {"insecure", "ashamed", "guilty"}
              THEN v0 - 200 ELSE v0
        v2 == IF cx.mood.label \in {"warm", "soft", "affectionate"}
              THEN v1 + Mul(cx.relationship.attachment, 3, 10) ELSE v1
        v3 == v2 + Mul(cx.maturity - 500, 3, 10)
        v4 == IF cx.emotion.primary \in {"hurt", "sad"} /\ cx.relationship.trust < 400
              THEN v3 - 250 ELSE v3
    IN clamp(v4)

_calc_playfulness(cx) ==
    LET p0 == Mul(cx.mood.valence, 4, 10) + Mul(cx.mood.energy, 3, 10)
        p1 == p0 + Mul(cx.relationship.attachment, 2, 10)
        p2 == IF cx.emotion.intensity > 600 /\ cx.mood.valence < 400
              THEN p1 - 400 ELSE p1
    IN clamp(p2)

_decide_tone_style(cx, openness, vulnerability) ==
    LET t0 == "calm"
        t1 == IF cx.emotion.primary \in {"sad", "hurt"} THEN "soft" ELSE t0
        t2 == IF cx.emotion.primary \in {"anxious", "nervous"} THEN "hesitant" ELSE t1
        t3 == IF cx.emotion.primary \in {"annoyed", "frustrated"} THEN "flat" ELSE t2
        t4 == IF /\ \/ cx.emotion.fusion \in {"insecure", "jealous"}
                    \/ cx.emotion.primary \in {"hurt", "annoyed"}
                 /\ cx.maturity < 600
                 /\ cx.relationship.trust > 400
              THEN "pouty" ELSE t3
        t5 == IF /\ cx.mood.label \in {"warm", "soft", "affectionate"}
                 /\ cx.relationship.attachment > 400
              THEN "gentle" ELSE t4
        t6 == IF _calc_playfulness(cx) > 600 /\ t5 \notin {"pouty", "flat"}
              THEN "light" ELSE t5
    IN t6

\* returns (mode, content_goal, ask_back)
_decide_speaking_mode(cx, openness, vulnerability) ==
    LET r0 ==
          IF cx.question_type \in {"how_are_you", "emotional_check"}
          THEN IF openness > 400 /\ cx.relationship.trust > 300
               THEN [mode |-> "answer_and_ask",
                     content_goal |-> "describe state and gently ask how the user is",
                     ask_back |-> TRUE]
               ELSE [mode |-> "answer",
                     content_goal |-> "briefly describe her current state",
                     ask_back |-> FALSE]
          ELSE IF cx.question_type = "what_if"
          THEN [mode |-> "reflective",
                content_goal |-> "imagine what she would feel and do in that scenario",
                ask_back |-> FALSE]
          ELSE IF cx.question_type = "preference"
          THEN [mode |-> "answer",
                content_goal |-> "state her preference honestly",
                ask_back |-> FALSE]
          ELSE IF openness > 500 /\ cx.emotion.intensity > 300
               THEN [mode |-> "answer_and_ask",
                     content_goal |-> "answer and show curiosity about the user's side",
                     ask_back |-> TRUE]
               ELSE [mode |-> "answer",
                     content_goal |-> "answer the user's message naturally",
                     ask_back |-> FALSE]
    IN IF vulnerability < 200 /\ r0.mode = "reflective"
       THEN [r0 EXCEPT !.mode = "light",
                       !.content_goal = "give a simple, surface-level response"]
       ELSE r0

\* index of the first snippet of maximal weight (sorted(..., reverse=True) is stable)
TopSnippet(pool) ==
    LET best == CHOOSE i \in 1..Len(pool) :
                   /\ \A j \in 1..Len(pool) : pool[j].weight <= pool[i].weight
                   /\ \A j \in 1..(i - 1) : pool[j].weight < pool[i].weight
    IN pool[best]

_pick_memory_hint(cx, vulnerability) ==
    LET pool == cx.recent_memory \o cx.episodic_memory
    IN IF vulnerability < 400 THEN None
       ELSE IF pool = <<>> THEN None
       ELSE TopSnippet(pool).text

\* the two passes with the final flag gated by the allow_nsfw setting
EmotionalShaping_gated(cx, intent) ==
    LET i1 == IF cx.nsfw_readiness > 600
              THEN [intent EXCEPT !.vulnerability = @ + 100, !.playfulness = @ + 100]
              ELSE intent
        i2 == IF cx.fluster > 500
              THEN [i1 EXCEPT !.hesitation = @ + 150]
              ELSE i1
        i3 == IF i2.nsfw_ready
              THEN [i2 EXCEPT !.vulnerability = @ + 50,
                              !.playfulness = @ + 50,
                              !.speaking_mode = IF @ = "answer" THEN "soft" ELSE @]
              ELSE i2
    IN [i3 EXCEPT !.nsfw_ready = cx.allow_nsfw /\ cx.nsfw_readiness > 500]

\* the two post-construction passes of build_intent (lines 203-221)
EmotionalShaping(cx, intent) ==
    LET i1 == IF cx.nsfw_readiness > 600
              THEN [intent EXCEPT !.vulnerability = @ + 100, !.playfulness = @ + 100]
              ELSE intent
        i2 == IF cx.fluster > 500
              THEN [i1 EXCEPT !.hesitation = @ + 150]
              ELSE i1
        i3 == IF i2.nsfw_ready
              THEN [i2 EXCEPT !.vulnerability = @ + 50,
                              !.playfulness = @ + 50,
                              !.speaking_mode = IF @ = "answer" THEN "soft" ELSE @]
              ELSE i2
    IN [i3 EXCEPT !.nsfw_ready = cx.nsfw_readiness > 500]

build_intent(cx) ==
    LET openness == _calc_openness(cx)
        vulnerability == _calc_vulnerability(cx, openness)
        playfulness == _calc_playfulness(cx)
        tone_style == _decide_tone_style(cx, openness, vulnerability)
        sm == _decide_speaking_mode(cx, openness, vulnerability)
        memory_hint == _pick_memory_hint(cx, vulnerability)
        mention_feeling ==
            IF cx.question_type \notin {"how_are_you", "emotional_check"}
            THEN vulnerability > 400 /\ cx.emotion.intensity > 200
            ELSE TRUE
        mention_needs == pressure(cx.needs) > 500 /\ vulnerability > 300
        intent == [emotion_label |-> IF cx.emotion.primary = None THEN "neutral"
                                     ELSE cx.emotion.primary,
                   fusion_label |-> cx.emotion.fusion,
                   mood_label |-> cx.mood.label,
                   maturity |-> cx.maturity,
                   relationship_label |-> cx.relationship.label,
                   openness |-> openness,
                   vulnerability |-> vulnerability,
                   playfulness |-> playfulness,
                   hesitation |-> 0,
                   speaking_mode |-> sm.mode,
                   tone_style |-> tone_style,
                   content_goal |-> sm.content_goal,
                   memory_hint |-> memory_hint,
                   mention_feeling_explicitly |-> mention_feeling,
                   mention_needs_subtly |-> mention_needs,
                   nsfw_ready |-> cx.nsfw_readiness > 500,
                   ask_back |-> sm.ask_back]
    IN EmotionalShaping(cx, intent)

(***************************************************************************)
(* inner_voice.py                                                          *)
(***************************************************************************)
InnerThought(text, weight) == [text |-> text, weight |-> weight]

generate(ns) ==
    LET th1 == IF ns.needs.fatigue > 600
               THEN <<InnerThought("tired", 600)>> ELSE <<>>
        th2 == IF ns.needs.affection > 550
               THEN <<InnerThought("closeness", 700)>> ELSE <<>>
        th3 == IF ns.emotion.intensity > 500 /\ ns.emotion.primary = "sad"
               THEN <<InnerThought("calm down", 500)>>
               ELSE IF ns.emotion.intensity > 500 /\ ns.emotion.primary = "happy"
               THEN <<InnerThought("show emotion", 500)>> ELSE <<>>
        th4 == IF ns.relationship.trust > 700
               THEN <<InnerThought("trust him", 400)>>
               ELSE IF ns.relationship.trust < 300
               THEN <<InnerThought("guard up", 400)>> ELSE <<>>
        th5 == IF ns.maturity < 400
               THEN <<InnerThought("pout", 700)>>
               ELSE IF ns.maturity > 800
               THEN <<InnerThought("composed", 300)>> ELSE <<>>
    IN th1 \o th2 \o th3 \o th4 \o th5

RECURSIVE ApplyThoughts(_, _)
\* the for-loop of merge_into_intent (lines 83-86)
ApplyThoughts(intent, thoughts) ==
    IF thoughts = <<>> THEN intent
    ELSE LET t == Head(thoughts)
         IN ApplyThoughts([intent EXCEPT !.vulnerability = @ + Mul(t.weight, 1, 10),
                                         !.playfulness = @ - Mul(t.weight, 5, 100),
                                         !.hesitation = @ + Mul(t.weight, 1, 10)],
                          Tail(thoughts))

\* merge_into_intent without its closing clamps
merge_into_intent_unclamped(intent, thoughts) == ApplyThoughts(intent, thoughts)

merge_into_intent(intent, thoughts) ==
    LET i == ApplyThoughts(intent, thoughts)
    IN [i EXCEPT !.vulnerability = Min2(One, @),
                 !.playfulness = Max2(0, Min2(One, @)),
                 !.hesitation = Max2(0, Min2(One, @))]

(***************************************************************************)
(* initiative_engine.py                                                    *)
(***************************************************************************)
_choose_topic(ns) ==
    IF ns.needs.affection > 600 THEN "Hey... can I ask you something?"
    ELSE IF ns.mood.valence > 400 THEN "So um... what are you doing right now?"
    ELSE IF ns.mood.valence < -300 THEN "Mmm... it's been a weird day."
    ELSE IF ns.needs.fatigue > 700 THEN "*yawn* ...how are you?"
    ELSE "Hey..."

\* the chance with a base of 0.2 instead of 0.1
InitiativeChance_from_fifth(ns) ==
    200 + (IF ns.needs.affection > 550 THEN 200 ELSE 0)
        + (IF ns.emotion.intensity > 600 THEN 150 ELSE 0)
        + (IF ns.relationship.trust > 600 THEN 100 ELSE 0)
        - (IF ns.needs.fatigue > 600 THEN 150 ELSE 0)

InitiativeChance(ns) ==
    100 + (IF ns.needs.affection > 550 THEN 200 ELSE 0)
        + (IF ns.emotion.intensity > 600 THEN 150 ELSE 0)
        + (IF ns.relationship.trust > 600 THEN 100 ELSE 0)
        - (IF ns.needs.fatigue > 600 THEN 150 ELSE 0)

NoInitiative == [content |-> None, priority |-> 0]

\* evaluate without the test for "?" in the last user message
evaluate_without_question_test(ns, cx, cooldown0, draw, cd) ==
    IF cx.is_direct_question
    THEN [initiative |-> NoInitiative, cooldown |-> cooldown0]
    ELSE IF cooldown0 > 0
    THEN [initiative |-> NoInitiative, cooldown |-> cooldown0 - 1]
    ELSE IF ns.relationship.trust < 250
    THEN [initiative |-> NoInitiative, cooldown |-> cooldown0]
    ELSE IF draw > InitiativeChance(ns)
    THEN [initiative |-> NoInitiative, cooldown |-> cooldown0]
    ELSE [initiative |-> [content |-> _choose_topic(ns),
                          priority |-> InitiativeChance(ns)],
          cooldown |-> cd]

\* evaluate with its two random draws: draw = random.random(), cd = random.randint(3, 8).
\* Returns the InitiativeIntent (or NoInitiative) and the cooldown it leaves.
evaluate(ns, cx, cooldown0, draw, cd) ==
    IF ns.last_user_message.qmark
    THEN [initiative |-> NoInitiative, cooldown |-> cooldown0]
    ELSE IF cx.is_direct_question
    THEN [initiative |-> NoInitiative, cooldown |-> cooldown0]
    ELSE IF cooldown0 > 0
    THEN [initiative |-> NoInitiative, cooldown |-> cooldown0 - 1]
    ELSE IF ns.relationship.trust < 250
    THEN [initiative |-> NoInitiative, cooldown |-> cooldown0]
    ELSE IF draw > InitiativeChance(ns)
    THEN [initiative |-> NoInitiative, cooldown |-> cooldown0]
    ELSE [initiative |-> [content |-> _choose_topic(ns),
                          priority |-> InitiativeChance(ns)],
          cooldown |-> cd]

(***************************************************************************)
(* BrainLoop.py                                                            *)
(***************************************************************************)
\* _classify_question: the message is modelled by the phrase it contains
_classify_question(msg) == msg.kind

\* _estimate_mood_valence (lines 431-443): the valence of the MoodSnapshot of
\* the turn, from the mood label of the EmotionalState
PositiveMoods == {"happy", "excited", "curious", "warm", "calm"}

NegativeMoods == {"sad", "afraid", "bored", "angry", "hurt", "lonely"}

_estimate_mood_valence(mood_label) ==
    IF mood_label \in PositiveMoods THEN 700
    ELSE IF mood_label \in NegativeMoods THEN 300
    ELSE 500

\* step 15 with the priority threshold at 0.5 instead of 0.6
ApplyInitiative_at_half(cx, intent, initiative) ==
    LET ini == IF cx.is_direct_question THEN NoInitiative ELSE initiative
    IN IF ini = NoInitiative THEN intent
       ELSE IF ini.priority > 500
       THEN [intent EXCEPT !.content_goal = ini.content, !.speaking_mode = "question"]
       ELSE [intent EXCEPT !.ask_back = FALSE, !.memory_hint = ini.content]

\* step 15 of process_turn (lines 329-340)
ApplyInitiative(cx, intent, initiative) ==
    LET ini == IF cx.is_direct_question THEN NoInitiative ELSE initiative
    IN IF ini = NoInitiative THEN intent
       ELSE IF ini.priority > 600
       THEN [intent EXCEPT !.content_goal = ini.content, !.speaking_mode = "question"]
       ELSE [intent EXCEPT !.ask_back = FALSE, !.memory_hint = ini.content]

(***************************************************************************)
(* needs_engine.py                                                         *)
(***************************************************************************)
\* NeedsEngine.__init__
NeedsInit == [hunger |-> 100, thirst |-> 100, fatigue |-> 100,
              bladder |-> 100, affection |-> 200]

\* NeedsEngine.update without the closing min(..., 1.0)
NeedsAccrue_unclamped(n, dt, jit) ==
    [hunger    |-> n.hunger    + Mul(dt, 6, 10) + jit.hunger,
     thirst    |-> n.thirst    + Mul(dt, 9, 10) + jit.thirst,
     fatigue   |-> n.fatigue   + Mul(dt, 4, 10) + jit.fatigue,
     bladder   |-> n.bladder   + Mul(dt, 8, 10) + jit.bladder,
     affection |-> n.affection + Mul(dt, 5, 10) + jit.affection]

\* NeedsEngine.update: dt seconds since last_update, jit the five random.uniform draws
NeedsAccrue(n, dt, jit) ==
    [hunger    |-> Min2(n.hunger    + Mul(dt, 6, 10) + jit.hunger, One),
     thirst    |-> Min2(n.thirst    + Mul(dt, 9, 10) + jit.thirst, One),
     fatigue   |-> Min2(n.fatigue   + Mul(dt, 4, 10) + jit.fatigue, One),
     bladder   |-> Min2(n.bladder   + Mul(dt, 8, 10) + jit.bladder, One),
     affection |-> Min2(n.affection + Mul(dt, 5, 10) + jit.affection, One)]

\* upper ends of the five random.uniform(0, x) draws, in thousandths
JitterMax == [hunger |-> 5, thirst |-> 5, fatigue |-> 3, bladder |-> 4, affection |-> 3]

JitterZero == [hunger |-> 0, thirst |-> 0, fatigue |-> 0, bladder |-> 0, affection |-> 0]

JitterMixed == [hunger |-> 2, thirst |-> 0, fatigue |-> 1, bladder |-> 4, affection |-> 0]

Jitters == {JitterZero, JitterMixed, JitterMax}

RestAmount == 600

eat(n) == [n EXCEPT !.hunger = Max2(0, @ - 700)]

drink(n) == [n EXCEPT !.thirst = Max2(0, @ - 800)]

\* rest without the floor at 0
rest_unfloored(n) == [n EXCEPT !.fatigue = @ - RestAmount]

rest(n) == [n EXCEPT !.fatigue = Max2(0, @ - RestAmount)]

toilet(n) == [n EXCEPT !.bladder = Max2(0, @ - 900)]

receive_affection(n, amount) == [n EXCEPT !.affection = Max2(0, @ - amount)]

(***************************************************************************)
(* mood_engine.py                                                          *)
(***************************************************************************)
Range(seq) == {seq[i] : i \in 1..Len(seq)}

Count(seq, e) == Cardinality({i \in 1..Len(seq) : seq[i] = e})

FirstIndex(seq, e) == CHOOSE i \in 1..Len(seq) :
                         seq[i] = e /\ \A j \in 1..(i - 1) : seq[j] # e

\* Counter(history).most_common(1)[0]: the highest count, the earliest-seen
\* emotion among equal counts (a Counter iterates in insertion order)
MostCommon(history) ==
    CHOOSE e \in Range(history) :
        \A f \in Range(history) :
            \/ Count(history, f) < Count(history, e)
            \/ /\ Count(history, f) = Count(history, e)
               /\ FirstIndex(history, e) <= FirstIndex(history, f)

\* calculate_mood without the at-least-twice test
calculate_mood_once(history) ==
    IF history = <<>> THEN "neutral" ELSE MostCommon(history)

calculate_mood(history) ==
    IF history = <<>> THEN "neutral"
    ELSE LET emotion == MostCommon(history)
             amount == Count(history, emotion)
         IN IF amount < 2 THEN "neutral" ELSE emotion

(***************************************************************************)
(* fusion_engine.py                                                        *)
(***************************************************************************)
FUSION_RULES ==
    (<<"sad", "lonely">> :> "insecure") @@ (<<"sad", "loneliness">> :> "insecure") @@
    (<<"happy", "shy">> :> "tender") @@ (<<"happy", "bashful">> :> "tender") @@
    (<<"happy", "soft">> :> "tender") @@
    (<<"curious", "afraid">> :> "flustered") @@ (<<"curious", "anxious">> :> "flustered") @@
    (<<"curious", "nervous">> :> "flustered") @@
    (<<"nostalgic", "sad">> :> "bittersweet") @@ (<<"nostalgic", "tired">> :> "bittersweet") @@
    (<<"happy", "angry">> :> "mischievous") @@ (<<"happy", "annoyed">> :> "mischievous") @@
    (<<"excited", "angry">> :> "mischievous") @@ (<<"excited", "annoyed">> :> "mischievous") @@
    (<<"curious", "annoyed">> :> "teasing_irritation") @@
    (<<"happy", "jealous">> :> "possessive_warmth") @@
    (<<"nostalgic", "jealous">> :> "possessive_warmth") @@
    (<<"bored", "restless">> :> "frustrated") @@ (<<"bored", "impatient">> :> "frustrated") @@
    (<<"afraid", "lonely">> :> "clingy") @@ (<<"afraid", "abandoned">> :> "clingy") @@
    (<<"calm", "lonely">> :> "quiet_ache") @@
    (<<"sad", "jealous">> :> "bitter") @@ (<<"sad", "envy">> :> "bitter") @@
    (<<"happy", "envy">> :> "competitive_warmth")

FusionLabels == {FUSION_RULES[k] : k \in DOMAIN FUSION_RULES}

\* str.strip().lower() on the raw labels the model feeds in: a raw label is
\* either already normal or one of these padded / upper-case spellings
RawSpelling ==
    ("SAD" :> "sad") @@ (" happy " :> "happy") @@ ("Lonely" :> "lonely") @@
    (" Shy" :> "shy") @@ ("JEALOUS" :> "jealous") @@ ("   " :> "")

StripLower(e) == IF e \in DOMAIN RawSpelling THEN RawSpelling[e] ELSE e

_normalize(e) ==
    IF e = None \/ e = "" THEN None
    ELSE IF StripLower(e) = "" THEN None ELSE StripLower(e)

\* sec_norm / spike_norm of compute_fusion
NormList(list) ==
    LET Truthy(x) == x # None /\ x # ""
        kept == SelectSeq(list, Truthy)
        Normal(x) == _normalize(x) # None
        kept2 == SelectSeq(kept, Normal)
    IN [i \in 1..Len(kept2) |-> _normalize(kept2[i])]

\* the lookup returning the matching modifier in place of the rule's label
FirstRule_modifier(p, mods) ==
    IF \E i \in 1..Len(mods) : <<p, mods[i]>> \in DOMAIN FUSION_RULES
    THEN LET i == CHOOSE k \in 1..Len(mods) :
                     /\ <<p, mods[k]>> \in DOMAIN FUSION_RULES
                     /\ \A j \in 1..(k - 1) : <<p, mods[j]>> \notin DOMAIN FUSION_RULES
         IN mods[i]
    ELSE None

\* first modifier of the list that has a rule with p, or None
FirstRule(p, mods) ==
    IF \E i \in 1..Len(mods) : <<p, mods[i]>> \in DOMAIN FUSION_RULES
    THEN LET i == CHOOSE k \in 1..Len(mods) :
                     /\ <<p, mods[k]>> \in DOMAIN FUSION_RULES
                     /\ \A j \in 1..(k - 1) : <<p, mods[j]>> \notin DOMAIN FUSION_RULES
         IN FUSION_RULES[<<p, mods[i]>>]
    ELSE None

\* compute_fusion trying the secondary shades before the spikes
compute_fusion_secondary_first(primary, secondary_list, spikes) ==
    LET p == _normalize(primary)
        sec_norm == NormList(secondary_list)
        spike_norm == NormList(spikes)
    IN IF p = None THEN None
       ELSE IF FirstRule(p, sec_norm) # None THEN FirstRule(p, sec_norm)
       ELSE FirstRule(p, spike_norm)

compute_fusion(primary, secondary_list, spikes) ==
    LET p == _normalize(primary)
        sec_norm == NormList(secondary_list)
        spike_norm == NormList(spikes)
    IN IF p = None THEN None
       ELSE IF FirstRule(p, spike_norm) # None THEN FirstRule(p, spike_norm)
       ELSE FirstRule(p, sec_norm)

\* update_fusion leaving the stored label as it was
update_fusion_stale(state, spikes) == state

\* update_fusion: attaches the fusion label and stamps last_fusion_update
\* (the timestamp last_fusion_update, which nothing reads, is left out)
update_fusion(state, spikes) ==
    [state EXCEPT !.fusion = compute_fusion(state.primary, state.secondary, spikes)]

(***************************************************************************)
(* emotional_state.py                                                      *)
(***************************************************************************)
max_history == 20

\* EmotionalState() defaults, without the two timestamps last_update_ts and
\* last_fusion_update
create_default_state ==
    [baseline |-> "curious", mood |-> "neutral", primary |-> "neutral",
     secondary |-> <<>>, history |-> <<>>, fusion |-> None]

LastN(seq, n) == IF Len(seq) <= n THEN seq ELSE SubSeq(seq, Len(seq) - n + 1, Len(seq))

push_emotion(state, emotion) ==
    IF emotion = None \/ emotion = "" THEN state
    ELSE [state EXCEPT !.primary = emotion,
                       !.history = LastN(Append(@, emotion), max_history)]

(***************************************************************************)
(* emotion_memory_map.py and emotion_engine.py                             *)
(***************************************************************************)
\* EMOTION_KEYWORDS keys, in dict order
EmotionOrder == <<"happy", "nostalgic", "curious", "excited", "bored", "afraid", "sad", "neutral">>

EmotionKeys == Range(EmotionOrder)

NoHits == [e \in EmotionKeys |-> 0]

\* the user texts of the model, each with the number of EMOTION_KEYWORDS
\* substrings it contains per emotion
KeywordHits ==
    ("i lost my keys" :> [NoHits EXCEPT !["sad"] = 1]) @@
    ("nothing" :> [NoHits EXCEPT !["bored"] = 1]) @@
    ("good fun" :> [NoHits EXCEPT !["happy"] = 2]) @@
    ("brb" :> NoHits) @@
    ("we should go" :> NoHits) @@
    ("what did she say" :> [NoHits EXCEPT !["curious"] = 1]) @@
    ("sorry, what did she say" :> [NoHits EXCEPT !["curious"] = 1]) @@
    ("we know what did they say" :> [NoHits EXCEPT !["curious"] = 1]) @@
    ("i met anna" :> NoHits) @@
    ("i walked along the river for hours today" :> NoHits)

\* the texts the turns of the emotion engine's own specification hear
Stimuli == {"i lost my keys", "nothing", "good fun", "brb"}

\* entry.get(key, default) on a map entry
EntryGet(entry, key, default) == IF key \in DOMAIN entry THEN entry[key] ELSE default

is_avoided(map_data, stimulus) ==
    IF stimulus \in DOMAIN map_data
    THEN EntryGet(map_data[stimulus], "afraid", 0) <= -2
    ELSE FALSE

\* get_emotion reading a key the entries do not have, so that the default comes back
get_emotion_by_wrong_key(memory_map, stimulus) ==
    IF stimulus \in DOMAIN memory_map
    THEN EntryGet(memory_map[stimulus], "feeling", "neutral")
    ELSE None

get_emotion(memory_map, stimulus) ==
    IF stimulus \in DOMAIN memory_map
    THEN EntryGet(memory_map[stimulus], "emotion", "neutral")
    ELSE None

update_emotion(memory_map, stimulus, new_emotion, reinforce) ==
    LET e0 == IF stimulus \in DOMAIN memory_map THEN memory_map[stimulus]
              ELSE [emotion |-> new_emotion, reinforcement |-> 0, count |-> 0]
        e1 == [e0 EXCEPT !.reinforcement = @ + reinforce, !.count = @ + 1]
        e2 == IF reinforce < 0 /\ e1.reinforcement <= -2
              THEN [e1 EXCEPT !.emotion = "afraid"]
              ELSE IF reinforce > 0 /\ e1.reinforcement >= 2
              THEN [e1 EXCEPT !.emotion = new_emotion]
              ELSE e1
    IN [s \in (DOMAIN memory_map) \cup {stimulus} |->
            IF s = stimulus THEN e2 ELSE memory_map[s]]

\* keyword scores without the continuity bonus
Scores_without_continuity(stimulus, primary) ==
    [e \in EmotionKeys |-> 2 * KeywordHits[stimulus][e]]

\* keyword scores, doubled so that the 0.5 continuity bonus is the integer 1
Scores(stimulus, primary) ==
    [e \in EmotionKeys |-> 2 * KeywordHits[stimulus][e] + (IF e = primary THEN 1 ELSE 0)]

\* max(scores, key=scores.get): the first key, in dict order, of maximal score
ArgMax(scores) ==
    LET i == CHOOSE k \in 1..Len(EmotionOrder) :
                 /\ \A j \in 1..Len(EmotionOrder) :
                        scores[EmotionOrder[j]] <= scores[EmotionOrder[k]]
                 /\ \A j \in 1..(k - 1) :
                        scores[EmotionOrder[j]] < scores[EmotionOrder[k]]
    IN EmotionOrder[i]

SECONDARY_MAP ==
    ("happy" :> {"curious", "excited"}) @@ ("nostalgic" :> {"sad", "warm"}) @@
    ("curious" :> {"neutral", "hopeful"}) @@ ("afraid" :> {"alert", "cautious"}) @@
    ("sad" :> {"nostalgic", "tired"}) @@ ("bored" :> {"blank", "restless"}) @@
    ("excited" :> {"happy", "eager"}) @@ ("neutral" :> {})

SecondaryOf(e) == IF e \in DOMAIN SECONDARY_MAP THEN SECONDARY_MAP[e] ELSE {}

\* one ranking of the labels of SECONDARY_MAP
ShadeRanking == <<"alert", "blank", "cautious", "curious", "eager", "excited", "happy",
                  "hopeful", "neutral", "nostalgic", "restless", "sad", "tired", "warm">>

\* iteration orders of the Python set `combined` that the model explores: the
\* listing of the set along the ranking and the opposite listing (for a set of
\* one or two labels these are all its orders)
SetOrders(S) ==
    LET InS(e) == e \in S
        asc == SelectSeq(ShadeRanking, InS)
    IN {asc, [i \in 1..Len(asc) |-> asc[Len(asc) + 1 - i]]}

\* update_emotional_state(state, heard_text): pick is the random.choice fallback,
\* order the iteration order of the set `combined` (a listing of CombinedShades).
\* Returns state and map.
update_emotional_state(state, emap, stimulus, pick, order) ==
    IF is_avoided(emap, stimulus)
    THEN [state |-> [push_emotion(state, "afraid") EXCEPT
                        !.mood = "afraid", !.secondary = <<"alert", "cautious">>],
          emotion_map |-> emap]
    ELSE
    LET remembered == get_emotion(emap, stimulus)
        scores == Scores(stimulus, state.primary)
        best == ArgMax(scores)
        primary == IF remembered # None THEN remembered
                   ELSE IF scores[best] = 0 THEN pick ELSE best
        emap1 == IF remembered # None
                 THEN update_emotion(emap, stimulus, remembered, 1)
                 ELSE update_emotion(emap, stimulus, primary, 0)
        s1 == push_emotion(state, primary)
        s2 == [s1 EXCEPT !.mood = calculate_mood(s1.history)]
        combined == SecondaryOf(primary) \cup SecondaryOf(s2.mood) \cup SecondaryOf(s2.baseline)
        listed == order
        NotCurrent(e) == e \notin {primary, s2.mood}
        s3 == [s2 EXCEPT !.secondary = SelectSeq(listed, NotCurrent)]
    IN [state |-> update_fusion(s3, <<>>), emotion_map |-> emap1]

\* the set `combined` of a call, for the caller to draw an iteration order from
CombinedShades(state, emap, stimulus, pick) ==
    LET remembered == get_emotion(emap, stimulus)
        scores == Scores(stimulus, state.primary)
        best == ArgMax(scores)
        primary == IF remembered # None THEN remembered
                   ELSE IF scores[best] = 0 THEN pick ELSE best
        mood == calculate_mood(LastN(Append(state.history, primary), max_history))
    IN SecondaryOf(primary) \cup SecondaryOf(mood) \cup SecondaryOf(state.baseline)

(***************************************************************************)
(* time_engine.py                                                          *)
(***************************************************************************)
\* _dream_memory = None
NoDream == [lying_together |-> FALSE, tone |-> None, wc |-> FALSE, brb |-> FALSE]

\* TimeEngine.__init__ at time t
TimeEngineInit(t) ==
    [ping_after |-> 180, rest_after |-> 600, sleep_after |-> 1800,
     last_user_time |-> t, last_nova_time |-> t, last_user_text |-> None,
     _wake_requested |-> FALSE, state |-> "AWAKE", _running |-> TRUE,
     _did_ping |-> FALSE, _did_lie_down |-> FALSE, _did_sleep |-> FALSE,
     _dream_memory |-> NoDream]

note_user_activity(eng, t) ==
    [eng EXCEPT !.last_user_time = t, !.state = "AWAKE", !._wake_requested = TRUE,
                !._did_ping = FALSE, !._did_lie_down = FALSE, !._did_sleep = FALSE]

note_nova_speak(eng, t) == [eng EXCEPT !.last_nova_time = t]

\* substring tests on the last user text: which of the model's texts contain "brb" / "wc"
HasBrb(text) == text = "brb"

HasWc(text) == FALSE

_generate_return_reaction(state, eng, elapsed) ==
    LET fusion == IF state.fusion = None THEN "" ELSE state.fusion
        last == IF eng.last_user_text = None THEN "" ELSE eng.last_user_text
    IN IF elapsed < 60
       THEN (IF HasWc(last) THEN "That was quick~" ELSE "Oh-there you are.")
       ELSE IF elapsed < 900 /\ HasBrb(last)
       THEN (IF fusion = "mischievous" THEN "That wasn't a 'b', mister~"
             ELSE IF fusion = "insecure" THEN "Oh... you're back. I was a little worried."
             ELSE "Welcome back.")
       ELSE IF elapsed < 7200
       THEN (IF fusion = "clingy" THEN "You were gone a while... I missed you."
             ELSE IF fusion = "quiet_ache" THEN "You're back... good."
             ELSE IF HasWc(last) THEN "You didn't fall in, right?"
             ELSE "There you are. Took a bit.")
       ELSE IF fusion = "bitter" THEN "...You left me alone that long?"
       ELSE IF fusion = "possessive_warmth" THEN "You're finally back. Good."
       ELSE IF fusion = "insecure" THEN "I wasn't sure you'd come back."
       ELSE "Hi... welcome back."

_emotion_based_timings(state) ==
    LET mood == state.mood
        fusion == IF state.fusion = None THEN "" ELSE state.fusion
        ping == 180 - (IF mood = "bored" THEN 60 ELSE 0)
                    - (IF mood = "sad" THEN 30 ELSE 0)
                    + (IF mood = "happy" THEN 30 ELSE 0)
                    - (IF fusion = "lonely" THEN 90 ELSE 0)
                    - (IF fusion = "restless" THEN 45 ELSE 0)
                    + (IF fusion = "mischievous" THEN 30 ELSE 0)
                    - (IF fusion = "insecure" THEN 120 ELSE 0)
                    - (IF fusion = "frustrated" THEN 60 ELSE 0)
        rest0 == IF state.primary = "tired" THEN 600 - 120 ELSE 600
        sleep0 == IF state.primary = "tired" THEN 1800 - 300 ELSE 1800
    IN [ping |-> Max2(10, ping), rest |-> Max2(300, rest0), sleep |-> Max2(1500, sleep0)]

DecayStrength(idle_time) ==
    IF idle_time < 60 THEN 0
    ELSE IF idle_time < 180 THEN 1
    ELSE IF idle_time < 600 THEN 2
    ELSE 3

UnstableFusions == {"frustrated", "insecure", "clingy", "teasing_irritation", "bitter"}

_emotion_decay(state, eng, t) ==
    LET idle_time == t - Max2(eng.last_user_time, eng.last_nova_time)
        d == DecayStrength(idle_time)
        p == state.primary
        primary1 ==
            IF d >= 1
            THEN IF p = "frustrated" THEN "annoyed"
                 ELSE IF p = "annoyed" /\ d >= 2 THEN "neutral"
                 ELSE IF p = "sad" THEN "melancholy"
                 ELSE IF p = "melancholy" /\ d >= 2 THEN "soft"
                 ELSE IF p = "soft" /\ d >= 3 THEN "calm"
                 ELSE p
            ELSE p
        Stays(e) == ~ \/ (e = "lonely" /\ d >= 2)
                      \/ (e = "restless" /\ d >= 3)
                      \/ (e = "annoyed" /\ d >= 3)
        fusion1 == IF d = 3 /\ state.fusion \in UnstableFusions THEN None ELSE state.fusion
    IN [state EXCEPT !.primary = primary1,
                     !.secondary = SelectSeq(@, Stays),
                     !.fusion = fusion1]

\* the imagery list _generate_dream samples from
DreamImagery(state) ==
    LET fusion == IF state.fusion = None THEN "" ELSE state.fusion
        im == (IF state.primary \in {"sad", "melancholy", "hurt"}
               THEN {"rain", "long hallways", "empty rooms", "silence", "fog"} ELSE {})
              \cup
              (IF state.primary \in {"happy", "warm", "calm"}
               THEN {"sunlight", "soft blankets", "warm breeze", "open fields", "quiet beaches"}
               ELSE {})
              \cup
              (IF fusion = "insecure"
               THEN {"closing doors", "distant footsteps", "shadows moving away"} ELSE {})
              \cup
              (IF fusion = "clingy"
               THEN {"hands touching", "shared warmth", "lying together"} ELSE {})
              \cup
              (IF fusion = "mischievous"
               THEN {"playful chasing", "teasing whispers", "unexpected touches"} ELSE {})
              \cup
              (IF fusion = "frustrated"
               THEN {"broken clocks", "static noise", "doors that won't open"} ELSE {})
    IN IF im = {}
       THEN {"floating rooms", "changing colors", "soft lights", "whispering wind", "shifting walls"}
       ELSE im

\* random.sample(imagery, k=min(3, len(imagery))) by what the wake-up step can
\* tell of it: whether "lying together" is among the sampled symbols
DreamSamples(state) ==
    IF "lying together" \notin DreamImagery(state) THEN {FALSE}
    ELSE IF Cardinality(DreamImagery(state)) <= 3 THEN {TRUE}
    ELSE {FALSE, TRUE}

\* The dream text, by its parts: whether the sampled symbols include "lying
\* together", the tone line (keyed by the primary that selected it) and the two
\* optional closing sentences.  The motion phrase contains none of the phrases
\* the wake-up step searches for.
_generate_dream(state, eng, lying) ==
    LET last == IF eng.last_user_text = None THEN "" ELSE eng.last_user_text
    IN [lying_together |-> lying,
        tone |-> IF state.primary \in {"sad", "hurt", "happy", "warm", "insecure", "bitter", "neutral"}
                 THEN state.primary ELSE "default",
        wc |-> HasWc(last), brb |-> HasBrb(last)]

\* `phrase in dream` for the phrases of the wake-up step
DreamContains(dream, phrase) ==
    IF phrase = "lying together" THEN dream.lying_together
    ELSE IF phrase = "peaceful" THEN dream.tone = "happy"
    ELSE FALSE

\* dream carry-over of the wake-up step (lines 300-310)
DreamCarryover(state, dream) ==
    IF dream = NoDream THEN state
    ELSE IF DreamContains(dream, "far away") THEN [state EXCEPT !.primary = "quiet_ache"]
    ELSE IF DreamContains(dream, "couldn't catch up") THEN [state EXCEPT !.fusion = "insecure"]
    ELSE IF DreamContains(dream, "lying together") THEN [state EXCEPT !.primary = "warm"]
    ELSE IF DreamContains(dream, "teased") THEN [state EXCEPT !.fusion = "mischievous"]
    ELSE IF DreamContains(dream, "peaceful") THEN [state EXCEPT !.primary = "calm"]
    ELSE state

AppendNew(seq, e) == IF e \in Range(seq) THEN seq ELSE Append(seq, e)

\* emotional drift of _tick (lines 332-344)
Drift(state, eng, idle_since) ==
    LET s1 == IF idle_since > 30 /\ state.primary \in {"sad", "neutral", "bored"}
              THEN AppendNew(state.secondary, "lonely") ELSE state.secondary
        s2 == IF idle_since > 90 THEN AppendNew(s1, "restless") ELSE s1
        s3 == IF idle_since > 180 /\ eng.last_user_text # None /\ HasBrb(eng.last_user_text)
              THEN AppendNew(s2, "annoyed") ELSE s2
    IN [state EXCEPT !.secondary = s3]

\* TimeEngine._tick at time t; lying is the random sample of a dream.
\* _speak reaches Speech.on_event through core.emit, which calls note_nova_speak
\* (nova.py lines 79-87).  Returns the state, the engine and the text spoken.
_tick(state, eng0, t, lying) ==
    LET idle_since == t - Max2(eng0.last_user_time, eng0.last_nova_time)
        tm == _emotion_based_timings(state)
        eng == [eng0 EXCEPT !.ping_after = tm.ping, !.rest_after = tm.rest,
                            !.sleep_after = tm.sleep]
        just_returned == /\ eng.last_user_time > eng.last_nova_time
                         /\ (t - eng.last_nova_time) > 5
                         /\ (t - eng.last_user_time) < 2
        drifted == update_fusion(Drift(state, eng, idle_since), <<>>)
        decayed == _emotion_decay(drifted, eng, t)
    IN IF eng.state = "ASLEEP"
       THEN IF eng._wake_requested
            THEN LET dream == eng._dream_memory
                     e1 == IF dream # NoDream
                           THEN [note_nova_speak(eng, t) EXCEPT !._dream_memory = NoDream]
                           ELSE eng
                 IN [state |-> DreamCarryover(state, dream),
                     eng |-> [e1 EXCEPT !._wake_requested = FALSE, !._did_sleep = FALSE,
                                        !.state = "AWAKE"],
                     spoken |-> IF dream # NoDream THEN "*yawns softly* I... just woke up." ELSE None]
            ELSE [state |-> state, eng |-> eng, spoken |-> None]
       ELSE IF just_returned /\ eng.last_user_text \notin {None, ""}
       THEN [state |-> state, eng |-> note_nova_speak(eng, t),
             spoken |-> _generate_return_reaction(state, eng, idle_since)]
       ELSE IF idle_since >= eng.ping_after /\ ~eng._did_ping
       THEN [state |-> decayed,
             eng |-> [note_nova_speak(eng, t) EXCEPT !._did_ping = TRUE],
             spoken |-> "idle ping"]
       ELSE IF idle_since >= eng.rest_after /\ ~eng._did_lie_down
       THEN [state |-> decayed,
             eng |-> [note_nova_speak(eng, t) EXCEPT !._did_lie_down = TRUE, !.state = "RESTING"],
             spoken |-> "[Nova lies down quietly on her bed, relaxing.]"]
       ELSE IF idle_since >= eng.sleep_after /\ ~eng._did_sleep
       THEN [state |-> decayed,
             eng |-> [note_nova_speak(eng, t) EXCEPT
                         !._did_sleep = TRUE, !.state = "ASLEEP",
                         !._dream_memory = _generate_dream(decayed, eng, lying)],
             spoken |-> "[Nova's breathing slows as she drifts into a deep sleep...]"]
       ELSE [state |-> decayed, eng |-> eng, spoken |-> None]

(***************************************************************************)
(* memory_consolidation.py (strengths in ten-thousandths: MemOne is 1.0)   *)
(***************************************************************************)
MemOne == 10 * One

PromotionThreshold == 3500

\* the short-term texts of the model with the features _score_memory reads:
\* len(text) > 40, "thank" in text, "love" in text
TextFeatures ==
    ("ok" :> [long |-> FALSE, thank |-> FALSE, love |-> FALSE]) @@
    ("thank you" :> [long |-> FALSE, thank |-> TRUE, love |-> FALSE]) @@
    ("i would love to hear more about your day, tell me everything" :>
        [long |-> TRUE, thank |-> FALSE, love |-> TRUE])

MemTexts == DOMAIN TextFeatures

\* getattr / hasattr with a default on the state object
AttrOr(obj, name, default) == IF name \in DOMAIN obj THEN obj[name] ELSE default

\* strength as computed at lines 82-103; draw is random.uniform(0.1, 0.4)
ScoreStrength(mem, ns, draw) ==
    LET f == TextFeatures[mem.text]
        emotional == ns.emotion.intensity
        relationship == ns.relationship.trust
        affection == AttrOr(ns, "affection", 3000)
        arousal == AttrOr(ns, "arousal", 0)
        fluster == AttrOr(ns, "fluster", 0)
        novelty == draw + (IF f.long THEN 1000 ELSE 0)
        emotional_weight == Mul(emotional, 6, 10) + Mul(fluster, 2, 10) + Mul(arousal, 2, 10)
        relationship_weight == Mul(relationship, 5, 10) + Mul(affection, 3, 10)
                               + (IF f.thank THEN 1000 ELSE 0)
                               + (IF f.love THEN 2000 ELSE 0)
    IN [emotional_weight |-> emotional_weight,
        relationship_weight |-> relationship_weight,
        novelty |-> novelty,
        strength |-> Mul(emotional_weight, 4, 10) + Mul(relationship_weight, 4, 10)
                     + Mul(novelty, 2, 10)]

\* _score_memory: None below the 0.15 floor, else a ConsolidatedMemory; the
\* Optional result is a sequence, <<>> for None and <<m>> for the object m
_score_memory(mem, ns, draw) ==
    LET sc == ScoreStrength(mem, ns, draw)
    IN IF sc.strength < 1500 THEN <<>>
       ELSE <<[text |-> mem.text,
               emotional_weight |-> sc.emotional_weight,
               relationship_weight |-> sc.relationship_weight,
               novelty |-> sc.novelty,
               overall_strength |-> sc.strength,
               turns_ago |-> 0]>>

\* the promotion test with >= in place of >
Promotes_inclusive(score) == score # <<>> /\ score[1].overall_strength >= PromotionThreshold

\* whether consolidate promotes a scored record (line 52)
Promotes(score) == score # <<>> /\ score[1].overall_strength > PromotionThreshold

\* the decay step with the sign of the decay reversed
DecayEntry_growing(mem) ==
    LET age == mem.turns_ago + 1
        decay == 100 + Mul(age, 5, 1)
    IN [mem EXCEPT !.turns_ago = age, !.overall_strength = @ + decay]

\* mem.turns_ago += 1 ... on one entry (lines 312-316)
DecayEntry(mem) ==
    LET age == mem.turns_ago + 1
        decay == 100 + Mul(age, 5, 1)
    IN [mem EXCEPT !.turns_ago = age, !.overall_strength = @ - decay]

\* an entry without the attributes the decay loop reads (a MemorySnippet put
\* there by NovaState.update_turn) makes the loop raise AttributeError
Decayable(mem) == "turns_ago" \in DOMAIN mem /\ "overall_strength" \in DOMAIN mem

FirstBad(entries) ==
    IF \A i \in 1..Len(entries) : Decayable(entries[i]) THEN 0
    ELSE CHOOSE i \in 1..Len(entries) :
            ~Decayable(entries[i]) /\ \A j \in 1..(i - 1) : Decayable(entries[j])

Survives(mem) == mem.overall_strength > 500

\* _decay_episodic: the entries are aged in place one after the other; the
\* list is replaced by the survivors only if the loop ran to its end
_decay_episodic(ns) ==
    LET entries == ns.episodic_memory
        bad == FirstBad(entries)
    IN IF bad = 0
       THEN [state |-> [ns EXCEPT !.episodic_memory =
                            SelectSeq([i \in 1..Len(entries) |-> DecayEntry(entries[i])], Survives)],
             raised |-> FALSE]
       ELSE [state |-> [ns EXCEPT !.episodic_memory =
                            [i \in 1..Len(entries) |->
                                IF i < bad THEN DecayEntry(entries[i]) ELSE entries[i]]],
             raised |-> TRUE]

\* one entry of the loop of _prune_weak_episodic (getattr defaults, setattr)
PruneEntry(mem) ==
    LET age == AttrOr(mem, "turns_ago", 0) + 1
        decay == 200 + Mul(age, 10, 1)
        strength == AttrOr(mem, "overall_strength", 5000) - decay
    IN [f \in (DOMAIN mem) \cup {"turns_ago", "overall_strength"} |->
            IF f = "turns_ago" THEN age
            ELSE IF f = "overall_strength" THEN strength
            ELSE mem[f]]

PruneSurvives(mem) == mem.overall_strength > 800

_prune_weak_episodic(ns) ==
    LET entries == ns.episodic_memory
    IN IF entries = <<>> THEN ns
       ELSE [ns EXCEPT !.episodic_memory =
                SelectSeq([i \in 1..Len(entries) |-> PruneEntry(entries[i])], PruneSurvives)]

RECURSIVE PromoteLoop(_, _, _, _, _)
\* the scoring loop of consolidate: draws[i] is the novelty draw of record i;
\* origin stands for the identity of the new object (the pass and the index
\* of the record it was scored from)
PromoteLoop(recent, ns, draws, pass, i) ==
    IF i > Len(recent) THEN <<>>
    ELSE LET score == _score_memory(recent[i], ns, draws[i])
         IN (IF Promotes(score)
             THEN <<score[1] @@ [origin |-> <<pass, i>>]>> ELSE <<>>)
            \o PromoteLoop(recent, ns, draws, pass, i + 1)

\* consolidate; when the decay loop raises, the short-term list is not cleared
consolidate(ns, draws, pass) ==
    LET new_episodic == PromoteLoop(ns.recent_memory, ns, draws, pass, 1)
        appended == [ns EXCEPT !.episodic_memory = @ \o new_episodic]
        decayed == _decay_episodic(appended)
    IN IF decayed.raised THEN decayed
       ELSE [state |-> [decayed.state EXCEPT !.recent_memory = <<>>], raised |-> FALSE]

(***************************************************************************)
(* nova_state.py                                                           *)
(***************************************************************************)
\* NovaState(): the fields the consolidation engine reads or writes
NovaStateInit ==
    [emotion |-> [intensity |-> 0], relationship |-> [trust |-> 2000],
     recent_memory |-> <<>>, episodic_memory |-> <<>>, turn_count |-> 0]

\* NovaState.update_turn, on the same fields
update_turn(ns, new_emotion, new_relationship, recent_memory, episodic_memory) ==
    [ns EXCEPT !.turn_count = @ + 1,
               !.emotion = new_emotion,
               !.relationship = new_relationship,
               !.recent_memory = recent_memory,
               !.episodic_memory = episodic_memory]

(***************************************************************************)
(* State                                                                   *)
(***************************************************************************)
VARIABLES
    ctx,              \* IntentContext / NovaState snapshots of the turn
    built,            \* the Intent build_intent returned
    sent,             \* the Intent handed to LlmBridge.generate_reply
    cooldown,         \* InitiativeEngine.cooldown
    turn_pc,          \* "ready" before process_turn, "done" after
    needs,            \* NeedsEngine: hunger, thirst, fatigue, bladder, affection
    last_update,      \* NeedsEngine.last_update
    now,              \* time.time(), in seconds
    mood_in,          \* argument of calculate_mood
    mood_out,         \* its result
    fusion_in,        \* arguments of compute_fusion
    fusion_out,       \* its result
    emotional_state,  \* EmotionalState
    emotion_map,      \* emotion_engine.emotion_map
    time_engine,      \* TimeEngine fields
    spoken,           \* text of the ticker's last speech event, or None
    nova_state,       \* NovaState fields of the consolidation engine
    mem_raised,       \* TRUE when the last consolidate raised
    last_scored,      \* the strengths the last consolidate computed, per record
    passes,           \* number of consolidation passes so far
    initiative,       \* what InitiativeEngine.evaluate last returned
    llm_call,         \* the bridge called, its arguments and the outcome of the external call
    reply,            \* what the bridge's reply function did: raised, or the text returned
    current,          \* the coroutine the event loop is running, "none" between them
    main_pc,          \* where main_async is
    tick_pc,          \* where TimeEngine.run is
    pending_text,     \* the line wait_for_user_input returned
    bridge_state,     \* LlmBridge.emotional_state
    startup,          \* StartupEngine: its flags and the state of its two tasks
    privacy,          \* PrivacyGuard.state of the bridge
    bridge_mem,       \* the bridge's memory fields and what it wrote to the memory library
    turn_out,         \* what the last _handle_user_text emitted, generated and took in
    live,             \* the EmotionalState object BrainLoop works on, every attribute
    state_file,       \* Memory/data/emotional_state.json: None, or the JSON it holds
    loaded,           \* what the last load_emotional_state returned
    lib_files,        \* the five files of the memory library directory
    memory_lib,       \* MemoryLibrary: its collections and _loaded
    lib_pc,           \* where main_async is around memory_lib.load()
    daily_cycle,      \* DailyCycleEngine.state
    daily_state,      \* the nova_state DailyCycleEngine.sleep and wake mutate
    stages,           \* the idle stages the ticker fired since the last user activity
    guard_log,        \* PrivacyGuard: its last answer and the length of the run of probes
    greet,            \* main_async: its auto-greeting flags, delay and place in the loop
    sleep_log,        \* process_turn's sleep step: when sleep began and how the last turns ended
    last_op,          \* name of the last operation
    ops               \* number of operations so far

intentVars == <<ctx, built, sent, cooldown, turn_pc>>

needsVars == <<needs, last_update>>

moodVars == <<mood_in, mood_out>>

fusionVars == <<fusion_in, fusion_out>>

emotionVars == <<emotional_state, emotion_map, time_engine, spoken>>

memoryVars == <<nova_state, mem_raised, last_scored, passes>>

initiativeVars == <<initiative>>

\* the state of the components added after the consolidation engine
bridgeVars == <<llm_call, reply>>

loopVars == <<current, main_pc, tick_pc, pending_text, bridge_state>>

startupVars == <<startup>>

handleVars == <<privacy, bridge_mem, turn_out>>

persistVars == <<live, state_file, loaded>>

libVars == <<lib_files, memory_lib, lib_pc>>

cycleVars == <<daily_cycle, daily_state>>

idleVars == <<stages>>

guardVars == <<guard_log>>

greetVars == <<greet>>

wakeVars == <<sleep_log>>

extVars == <<initiativeVars, bridgeVars, loopVars, startupVars, handleVars, persistVars,
             libVars, cycleVars, idleVars, guardVars, greetVars, wakeVars>>

vars == <<ctx, built, sent, cooldown, turn_pc, needs, last_update, now,
          mood_in, mood_out, fusion_in, fusion_out,
          emotional_state, emotion_map, time_engine, spoken,
          nova_state, mem_raised, last_scored, passes, extVars, last_op, ops>>

(***************************************************************************)
(* Bounds                                                                  *)
(***************************************************************************)
MaxNeedsOps == 5

MaxHistLen == 4

MaxMods == 2

MaxTurns == 2

MaxClock == 2700

MaxPasses == 3

MaxMemTurns == 2

MaxEvaluations == 10

MaxTextLen == 3

MaxLoopOps == 5

MaxCancels == 3

\* sequences over S of length at most n
RECURSIVE SeqsUpTo(_, _)
SeqsUpTo(S, n) ==
    IF n = 0 THEN {<<>>}
    ELSE LET shorter == SeqsUpTo(S, n - 1)
         IN shorter \cup {Append(q, x) : q \in {r \in shorter : Len(r) = n - 1}, x \in S}

(***************************************************************************)
(* Start-up values of each component                                       *)
(***************************************************************************)
DefaultContext ==
    [emotion |-> [primary |-> None, fusion |-> None, intensity |-> 0, stability |-> 500],
     mood |-> [label |-> "neutral", valence |-> 500, energy |-> 500],
     needs |-> [hunger |-> 0, thirst |-> 0, fatigue |-> 0, bladder |-> 0, affection |-> 0],
     relationship |-> [label |-> "stranger", level |-> 0, trust |-> 200,
                       safety |-> 200, attachment |-> 0],
     maturity |-> 500,
     recent_memory |-> <<>>, episodic_memory |-> <<>>,
     allow_nsfw |-> FALSE,
     last_user_message |-> [kind |-> "generic", qmark |-> FALSE],
     question_type |-> "generic", is_direct_question |-> FALSE,
     fluster |-> 0, nsfw_readiness |-> 0]

IntentIdle == ctx = DefaultContext /\ built = None /\ sent = None
              /\ cooldown = 0 /\ turn_pc = "ready"

NeedsIdle == needs = NeedsInit /\ last_update = 0

MoodIdle == mood_in = <<>> /\ mood_out = None

FusionIdle == fusion_in = [primary |-> None, secondary |-> <<>>, spikes |-> <<>>]
              /\ fusion_out = None

EmotionIdle == /\ emotional_state = create_default_state
               /\ emotion_map = <<>>
               /\ time_engine = TimeEngineInit(0)
               /\ spoken = None

MemoryIdle == nova_state = NovaStateInit /\ mem_raised = FALSE
              /\ last_scored = <<>> /\ passes = 0

InitiativeIdle == initiative = NoInitiative

BridgeIdle == llm_call = None /\ reply = None

\* main_async before its first await; LlmBridge.__init__ loads its own state
LoopIdle == /\ current = "none" /\ main_pc = "await_input" /\ tick_pc = "sleep"
            /\ pending_text = None
            /\ bridge_state = create_default_state

\* StartupEngine.__init__ and start(): the first task is created, not yet run
StartupIdle ==
    startup = [startup_active |-> TRUE, first_sent |-> FALSE, second_sent |-> FALSE,
               _task |-> "created", _second_task |-> "none", cancel_calls |-> 0]

\* PrivacyState()
PrivacyStateInit ==
    [consecutive_attempts |-> 0, total_attempts |-> 0, hard_locked |-> FALSE,
     last_attempt_time |-> 0, last_topic_tag |-> "", recently_forgiven |-> FALSE]

\* the memory fields LlmBridge.__init__ sets, and the records the bridge has
\* handed to its MemoryLibrary (their kinds, in order)
BridgeMemInit ==
    [memory_buffer |-> <<>>, _pending_episodic |-> None, _last_episodic_ts |-> 0,
     last_people |-> {}, _last_people_timestamp |-> 0,
     last_user_time |-> None, last_nova_time |-> None, library |-> <<>>]

NoTurn == [text |-> None, replies |-> <<>>, llm_calls |-> 0, intakes |-> 0]

HandleIdle == privacy = PrivacyStateInit /\ bridge_mem = BridgeMemInit /\ turn_out = NoTurn

\* EmotionalState() at time t with every attribute an instance can carry: the
\* eight dataclass fields, and intensity and stability, which exist only once
\* BrainLoop.process_turn has set them (<<>>: the attribute is absent)
EmotionalStateAt(t) ==
    [baseline |-> "curious", mood |-> "neutral", primary |-> "neutral",
     secondary |-> <<>>, history |-> <<>>, last_update_ts |-> t, fusion |-> None,
     last_fusion_update |-> t, intensity |-> <<>>, stability |-> <<>>]

\* no save file yet (<<>>), nothing loaded yet (<<>>); EmotionEngine() builds
\* its own EmotionalState()
PersistIdle == live = EmotionalStateAt(0) /\ state_file = <<>> /\ loaded = <<>>

(***************************************************************************)
(* memory_library/tools.py: MemoryLibrary                                  *)
(***************************************************************************)
\* the five files of the library directory, in the order load reads them
LibFileNames == <<"episodic.json", "semantic.json", "emotional.json",
                  "system.json", "short_term.json">>

\* what a file of the directory can hold: a file is <<>> when it does not exist
\* and <<text>> when it does.  The texts: a zero-length file, the text save
\* writes for one entry, that text cut short by an interrupted write, and a
\* well-formed JSON list whose entry lacks the fields of the dataclass.
FileTexts == {"", "saved", "saved, cut short", "[{}]"}

Files == {<<>>} \cup {<<t>> : t \in FileTexts}

\* json.loads(text or default) of load, per file: the value parsed, or the
\* exception raised.  "saved" is what save wrote for this file: a list of one
\* asdict(...) for the three collections, an object of one key for the other two.
json_loads(name, text) ==
    IF text = "saved, cut short" THEN [raised |-> "JSONDecodeError", value |-> <<>>]
    ELSE IF text = "" THEN [raised |-> "", value |-> <<>>]
    ELSE IF text = "[{}]" THEN [raised |-> "", value |-> <<[fields |-> "none", of |-> name]>>]
    ELSE IF text \in {"[]", "{}"} THEN [raised |-> "", value |-> <<>>]
    ELSE IF text = "saved, more"
    THEN [raised |-> "", value |-> <<[fields |-> "all", of |-> name],
                                     [fields |-> "all", of |-> name]>>]
    ELSE [raised |-> "", value |-> <<[fields |-> "all", of |-> name]>>]

\* the constructor call of load for each item of a collection file:
\* EpisodicMemory(**item), SemanticMemory(**item) after item["key"],
\* EmotionalEvent(**item); system.json and short_term.json are kept as parsed
Construct(name, value) ==
    IF name \in {"system.json", "short_term.json"} THEN [raised |-> "", value |-> value]
    ELSE IF \E i \in 1..Len(value) : value[i].fields = "none"
    THEN [raised |-> IF name = "semantic.json" THEN "KeyError" ELSE "TypeError",
          value |-> <<>>]
    ELSE [raised |-> "", value |-> value]

\* one "if path.exists(): ... else: ..." block of load
LoadFile(name, file) ==
    IF file = <<>> THEN [raised |-> "", value |-> <<>>]
    ELSE LET parsed == json_loads(name, file[1])
         IN IF parsed.raised # "" THEN parsed ELSE Construct(name, parsed.value)

\* MemoryLibrary.__init__
MemoryLibraryNew ==
    [collections |-> [i \in 1..5 |-> <<>>], _loaded |-> FALSE, raised |-> ""]

\* MemoryLibrary.load: the five blocks in order; an exception leaves the
\* collections already assigned as they are, the others as they were, and
\* _loaded unset
RECURSIVE load_from(_, _, _)
load_from(lib, files, i) ==
    IF i > 5 THEN [lib EXCEPT !._loaded = TRUE]
    ELSE LET r == LoadFile(LibFileNames[i], files[i])
         IN IF r.raised # "" THEN [lib EXCEPT !.raised = r.raised]
            ELSE load_from([lib EXCEPT !.collections[i] = r.value], files, i + 1)

load(lib, files) == load_from([lib EXCEPT !.raised = ""], files, 1)

LibIdle == /\ lib_files = [i \in 1..5 |-> <<>>]
           /\ memory_lib = MemoryLibraryNew
           /\ lib_pc = "start"

(***************************************************************************)
(* daily_cycle_engine.py                                                   *)
(***************************************************************************)
\* DailyCycleState()
DailyCycleStateNew == [is_asleep |-> FALSE, hours_slept |-> 0]

\* the attributes of nova_state that sleep and wake touch
DailyStateNew ==
    [emotion |-> [intensity |-> 0, stability |-> 700],
     mood |-> [valence |-> 0],
     relationship |-> [trust |-> 0],
     needs |-> [fatigue |-> 0, hunger |-> 0, thirst |-> 0],
     drive |-> [focus |-> 0]]

CycleIdle == daily_cycle = DailyCycleStateNew /\ daily_state = DailyStateNew

IdleIdle == stages = <<>>

\* no message seen yet: no answer, no probe in the run
GuardLogInit == [override |-> "None", kind |-> "none", run |-> 0, base |-> 0, locked |-> FALSE]

GuardIdle == guard_log = GuardLogInit

\* main_async at line 176, before get_auto_delay() is called
GreetInit ==
    [auto_greet_allowed |-> TRUE, auto_greet_done |-> FALSE,
     auto_greet_delay |-> 0, auto_greet_start |-> 0,
     pc |-> "start", checks |-> 0, inputs |-> 0]

GreetIdle == greet = GreetInit

\* DailyCycleState.last_sleep_time is set by sleep() alone; no turn yet
SleepLogInit ==
    [last_sleep_time |-> 0, outcome |-> "none", tired |-> FALSE,
     woke_tired |-> FALSE, after_tired_wake |-> FALSE, fatigue_seen |-> 0]

WakeIdle == sleep_log = SleepLogInit

ExtIdle == /\ InitiativeIdle /\ BridgeIdle /\ LoopIdle /\ StartupIdle
           /\ HandleIdle /\ PersistIdle /\ LibIdle /\ CycleIdle /\ IdleIdle /\ GuardIdle /\ GreetIdle /\ WakeIdle

(***************************************************************************)
(* The turn: BrainLoop.process_turn, steps 14-17                           *)
(***************************************************************************)
Messages == {[kind |-> "generic", qmark |-> FALSE],
             [kind |-> "what_if", qmark |-> TRUE]}

Snippets == <<[text |-> "you said hi", weight |-> 600, kind |-> "recent"],
              [text |-> "earlier talk", weight |-> 850, kind |-> "continuity"]>>

Contexts ==
    {[DefaultContext EXCEPT
        !.emotion = [primary |-> pr, fusion |-> fu, intensity |-> inten, stability |-> 700],
        !.mood = [label |-> ml, valence |-> va, energy |-> en],
        !.needs = [hunger |-> 0, thirst |-> 0, fatigue |-> fa, bladder |-> 0, affection |-> af],
        !.relationship = [label |-> "friend", level |-> 2, trust |-> tr,
                          safety |-> sa, attachment |-> at],
        !.maturity = ma,
        !.recent_memory = SubSeq(Snippets, 1, 1),
        !.episodic_memory = SubSeq(Snippets, 2, 2),
        !.last_user_message = msg,
        !.question_type = _classify_question(msg),
        !.is_direct_question = (_classify_question(msg) # "generic"),
        !.fluster = fl, !.nsfw_readiness = rd] :
     pr \in {"sad", "happy"}, fu \in {None, "insecure"}, inten \in {0, 700},
     ml \in {"neutral", "warm"}, va \in {200, 1000}, en \in {1000},
     fa \in {0, 700}, af \in {0, 600},
     tr \in {0, 400, 1000}, sa \in {0, 1000}, at \in {0, 1000},
     ma \in {200, 900}, msg \in Messages,
     fl \in {0, 600}, rd \in {0, 550, 700}}

\* random.random() draws, in thousandths, and the extremes of random.randint(3, 8)
RandomDraws == {0, 400, 999}

CooldownDraws == {3, 8}

InitIntent ==
    /\ ctx \in Contexts
    /\ built = None /\ sent = None /\ cooldown = 0 /\ turn_pc = "ready"
    /\ NeedsIdle /\ MoodIdle /\ FusionIdle /\ EmotionIdle /\ MemoryIdle
    /\ now = 0 /\ last_op = "init" /\ ops = 0 /\ ExtIdle

ProcessTurn(draw, cd) ==
    /\ turn_pc = "ready"
    /\ LET intent == build_intent(ctx)
           ev == evaluate(ctx, ctx, cooldown, draw, cd)
           thoughts == generate(ctx)
       IN /\ built' = intent
          /\ cooldown' = ev.cooldown
          /\ sent' = merge_into_intent(ApplyInitiative(ctx, intent, ev.initiative), thoughts)
    /\ turn_pc' = "done"
    /\ last_op' = "process_turn"
    /\ ops' = ops + 1
    /\ UNCHANGED <<ctx, needsVars, now, moodVars, fusionVars, emotionVars, memoryVars, extVars>>

NextIntent == \E draw \in RandomDraws, cd \in CooldownDraws : ProcessTurn(draw, cd)

SpecIntent == InitIntent /\ [][NextIntent]_vars

(***************************************************************************)
(* NeedsEngine                                                             *)
(***************************************************************************)
NeedsClockSteps == {500, 1000}

AffectionAmounts == {0, 400, 1000}

InitNeeds ==
    /\ NeedsIdle /\ now = 0
    /\ IntentIdle /\ MoodIdle /\ FusionIdle /\ EmotionIdle /\ MemoryIdle
    /\ last_op = "init" /\ ops = 0 /\ ExtIdle

NeedsStep(op) ==
    /\ ops < MaxNeedsOps
    /\ ops' = ops + 1
    /\ last_op' = op
    /\ UNCHANGED <<intentVars, moodVars, fusionVars, emotionVars, memoryVars, extVars>>

\* the wall clock moves on between two calls
ClockAdvance(d) ==
    /\ NeedsStep("clock")
    /\ now' = now + d
    /\ UNCHANGED needsVars

NeedsUpdate(jit) ==
    /\ NeedsStep("update")
    /\ needs' = NeedsAccrue(needs, now - last_update, jit)
    /\ last_update' = now
    /\ UNCHANGED now

Eat ==
    /\ NeedsStep("eat")
    /\ needs' = eat(needs)
    /\ UNCHANGED <<last_update, now>>

Drink ==
    /\ NeedsStep("drink")
    /\ needs' = drink(needs)
    /\ UNCHANGED <<last_update, now>>

Rest ==
    /\ NeedsStep("rest")
    /\ needs' = rest(needs)
    /\ UNCHANGED <<last_update, now>>

Toilet ==
    /\ NeedsStep("toilet")
    /\ needs' = toilet(needs)
    /\ UNCHANGED <<last_update, now>>

ReceiveAffection(amount) ==
    /\ NeedsStep("receive_affection")
    /\ needs' = receive_affection(needs, amount)
    /\ UNCHANGED <<last_update, now>>

NextNeeds ==
    \/ \E d \in NeedsClockSteps : ClockAdvance(d)
    \/ \E jit \in Jitters : NeedsUpdate(jit)
    \/ Eat
    \/ Drink
    \/ Rest
    \/ Toilet
    \/ \E amount \in AffectionAmounts : ReceiveAffection(amount)

SpecNeeds == InitNeeds /\ [][NextNeeds]_vars

(***************************************************************************)
(* MoodEngine                                                              *)
(***************************************************************************)
MoodEmotions == {"happy", "sad", "curious", "neutral"}

InitMood ==
    /\ mood_in \in SeqsUpTo(MoodEmotions, MaxHistLen)
    /\ mood_out = None
    /\ IntentIdle /\ NeedsIdle /\ FusionIdle /\ EmotionIdle /\ MemoryIdle
    /\ now = 0 /\ last_op = "init" /\ ops = 0 /\ ExtIdle

CalculateMood ==
    /\ last_op = "init"
    /\ mood_out' = calculate_mood(mood_in)
    /\ last_op' = "calculate_mood"
    /\ ops' = ops + 1
    /\ UNCHANGED <<mood_in, intentVars, needsVars, now, fusionVars, emotionVars, memoryVars, extVars>>

NextMood == CalculateMood

SpecMood == InitMood /\ [][NextMood]_vars

(***************************************************************************)
(* FusionEngine                                                            *)
(***************************************************************************)
FusionPrimaries == {None, "sad", "SAD", " happy ", "afraid", "neutral"}

FusionModifiers == {"lonely", "Lonely", "JEALOUS", " Shy", "", "   ", "restless"}

InitFusion ==
    /\ fusion_in \in [primary : FusionPrimaries,
                      secondary : SeqsUpTo(FusionModifiers, MaxMods),
                      spikes : SeqsUpTo(FusionModifiers, MaxMods)]
    /\ fusion_out = None
    /\ IntentIdle /\ NeedsIdle /\ MoodIdle /\ EmotionIdle /\ MemoryIdle
    /\ now = 0 /\ last_op = "init" /\ ops = 0 /\ ExtIdle

ComputeFusion ==
    /\ last_op = "init"
    /\ fusion_out' = compute_fusion(fusion_in.primary, fusion_in.secondary, fusion_in.spikes)
    /\ last_op' = "compute_fusion"
    /\ ops' = ops + 1
    /\ UNCHANGED <<fusion_in, intentVars, needsVars, now, moodVars, emotionVars, memoryVars, extVars>>

NextFusion == ComputeFusion

SpecFusion == InitFusion /\ [][NextFusion]_vars

(***************************************************************************)
(* EmotionEngine and TimeEngine on one EmotionalState (the shared instance *)
(* of the design: both take the state by reference), driven by the main    *)
(* loop of nova.py                                                         *)
(***************************************************************************)
\* seconds between two ticks of the model; 0 stands for a tick within the
\* second of the last main-loop iteration
EmoClockSteps == {0, 100, 600}

InitEmotion ==
    /\ EmotionIdle /\ now = 0
    /\ IntentIdle /\ NeedsIdle /\ MoodIdle /\ FusionIdle /\ MemoryIdle
    /\ last_op = "init" /\ ops = 0 /\ ExtIdle

EmotionFrame == UNCHANGED <<intentVars, needsVars, moodVars, fusionVars, memoryVars, extVars>>

\* one iteration of the main loop on a non-empty line (nova.py lines 218-221):
\* note_user_activity, last_user_text, then USER_TEXT is emitted; the bridge
\* runs update_emotional_state, and Speech.on_event calls note_nova_speak
UserTurn(text, pick, order) ==
    /\ ops < MaxTurns
    /\ LET eng1 == [note_user_activity(time_engine, now) EXCEPT !.last_user_text = text]
           upd == update_emotional_state(emotional_state, emotion_map, text, pick, order)
       IN /\ emotional_state' = upd.state
          /\ emotion_map' = upd.emotion_map
          /\ time_engine' = note_nova_speak(eng1, now)
    /\ spoken' = None
    /\ last_op' = "turn"
    /\ ops' = ops + 1
    /\ UNCHANGED now
    /\ EmotionFrame

\* an empty line: note_user_activity only (nova.py lines 202-204)
UserEmptyLine ==
    /\ ops < MaxTurns
    /\ time_engine' = note_user_activity(time_engine, now)
    /\ spoken' = None
    /\ last_op' = "empty_line"
    /\ ops' = ops + 1
    /\ UNCHANGED <<emotional_state, emotion_map, now>>
    /\ EmotionFrame

\* the state _generate_dream reads when the tick at time t falls asleep
TickDecayed(t) ==
    LET idle_since == t - Max2(time_engine.last_user_time, time_engine.last_nova_time)
    IN _emotion_decay(update_fusion(Drift(emotional_state, time_engine, idle_since), <<>>),
                      time_engine, t)

\* the dream samples of the tick at time t: one when it does not fall asleep
TickSamples(t) ==
    IF _tick(emotional_state, time_engine, t, FALSE).spoken
         = "[Nova's breathing slows as she drifts into a deep sleep...]"
    THEN DreamSamples(TickDecayed(t)) ELSE {FALSE}

\* one round of TimeEngine.run: the sleep, then _tick (d seconds after the
\* last round)
Tick(d, lying) ==
    /\ time_engine._running
    /\ now + d <= MaxClock
    /\ now' = now + d
    /\ LET r == _tick(emotional_state, time_engine, now + d, lying)
       IN /\ emotional_state' = r.state
          /\ time_engine' = r.eng
          /\ spoken' = r.spoken
    /\ last_op' = "tick"
    /\ UNCHANGED <<emotion_map, ops>>
    /\ EmotionFrame

NextEmotion ==
    \/ \E text \in Stimuli, pick \in {"curious", "neutral"} :
          \E order \in SetOrders(CombinedShades(emotional_state, emotion_map, text, pick)) :
             UserTurn(text, pick, order)
    \/ UserEmptyLine
    \/ \E d \in EmoClockSteps : \E lying \in TickSamples(now + d) : Tick(d, lying)

SpecEmotion == InitEmotion /\ [][NextEmotion]_vars

(***************************************************************************)
(* MemoryConsolidationEngine on a NovaState                                *)
(***************************************************************************)
MemorySnippet(text, weight, kind) == [text |-> text, weight |-> weight, kind |-> kind]

RecentLists ==
    {<<>>,
     <<MemorySnippet("ok", 6000, "recent")>>,
     <<MemorySnippet("ok", 6000, "recent"), MemorySnippet("ok", 5000, "recent")>>,
     <<MemorySnippet("thank you", 6000, "recent"),
       MemorySnippet("i would love to hear more about your day, tell me everything", 4000, "recent")>>}

\* episodic_all of process_turn: nothing recalled, or one recalled snippet
EpisodicRecalls(turn) ==
    {<<>>, <<MemorySnippet("ok", 5500, "episodic") @@ [origin |-> <<0, turn>>]>>}

\* random.uniform(0.1, 0.4), in ten-thousandths
NoveltyDraws == {1000, 2300, 2305, 4000}

InitMemory ==
    /\ MemoryIdle
    /\ IntentIdle /\ NeedsIdle /\ MoodIdle /\ FusionIdle /\ EmotionIdle
    /\ now = 0 /\ last_op = "init" /\ ops = 0 /\ ExtIdle

MemoryFrame == UNCHANGED <<intentVars, needsVars, now, moodVars, fusionVars, emotionVars, extVars, ops>>

UpdateTurn(intensity, trust, recent, recalled) ==
    /\ nova_state.turn_count < MaxMemTurns
    /\ nova_state' = update_turn(nova_state, [intensity |-> intensity], [trust |-> trust],
                                 recent, recalled)
    /\ last_op' = "update_turn"
    /\ UNCHANGED <<mem_raised, last_scored, passes>>
    /\ MemoryFrame

Consolidate(draws) ==
    /\ passes < MaxPasses
    /\ LET r == consolidate(nova_state, draws, passes + 1)
       IN /\ nova_state' = r.state
          /\ mem_raised' = r.raised
    /\ last_scored' = [i \in 1..Len(nova_state.recent_memory) |->
                          ScoreStrength(nova_state.recent_memory[i], nova_state, draws[i]).strength]
    /\ passes' = passes + 1
    /\ last_op' = "consolidate"
    /\ MemoryFrame

PruneWeakEpisodic ==
    /\ passes < MaxPasses
    /\ nova_state' = _prune_weak_episodic(nova_state)
    /\ passes' = passes + 1
    /\ last_op' = "prune"
    /\ UNCHANGED <<mem_raised, last_scored>>
    /\ MemoryFrame

NextMemory ==
    \/ \E intensity \in {0, 7000}, trust \in {0, 5000}, recent \in RecentLists :
          \E recalled \in EpisodicRecalls(nova_state.turn_count + 1) :
             UpdateTurn(intensity, trust, recent, recalled)
    \/ \E draws \in [1..Len(nova_state.recent_memory) -> NoveltyDraws] : Consolidate(draws)
    \/ PruneWeakEpisodic

SpecMemory == InitMemory /\ [][NextMemory]_vars

(***************************************************************************)
(* InitiativeEngine over successive turns                                  *)
(***************************************************************************)
\* the last user message of a turn: with or without "?", and with or without
\* one of the phrases _classify_question knows
InitiativeMessages == {[kind |-> k, qmark |-> q] : k \in {"generic", "how_are_you"},
                                                   q \in BOOLEAN}

\* what a turn hands to evaluate: NovaState after update_turn and the
\* IntentContext built from it
InitiativeContexts ==
    {[DefaultContext EXCEPT
        !.emotion = [primary |-> "happy", fusion |-> None, intensity |-> inten, stability |-> 500],
        !.needs = [hunger |-> 0, thirst |-> 0, fatigue |-> fa, bladder |-> 0, affection |-> af],
        !.relationship = [label |-> "friend", level |-> 2, trust |-> tr,
                          safety |-> 500, attachment |-> 0],
        !.mood = [label |-> mood, valence |-> _estimate_mood_valence(mood), energy |-> 500],
        !.last_user_message = msg,
        !.question_type = _classify_question(msg),
        !.is_direct_question = (_classify_question(msg) # "generic")] :
     inten \in {0, 700}, fa \in {0, 800}, af \in {0, 700}, tr \in {200, 700},
     mood \in {"neutral", "sad"}, msg \in InitiativeMessages}

InitInitiative ==
    /\ IntentIdle /\ NeedsIdle /\ MoodIdle /\ FusionIdle /\ EmotionIdle /\ MemoryIdle
    /\ now = 0 /\ last_op = "init" /\ ops = 0 /\ ExtIdle

\* step 15 of process_turn: one call of InitiativeEngine.evaluate
Evaluate(cx, draw, cd) ==
    /\ ops < MaxEvaluations
    /\ LET ev == evaluate(cx, cx, cooldown, draw, cd)
       IN /\ initiative' = ev.initiative
          /\ cooldown' = ev.cooldown
    /\ ctx' = cx
    /\ last_op' = "evaluate"
    /\ ops' = ops + 1
    /\ UNCHANGED <<built, sent, turn_pc, needsVars, now, moodVars, fusionVars,
                   emotionVars, memoryVars, bridgeVars, loopVars, startupVars,
                   handleVars, persistVars, libVars, cycleVars, idleVars, guardVars, greetVars, wakeVars>>

NextInitiative ==
    \E cx \in InitiativeContexts, draw \in RandomDraws, cd \in CooldownDraws :
       Evaluate(cx, draw, cd)

SpecInitiative == InitInitiative /\ [][NextInitiative]_vars

(***************************************************************************)
(* Text and JSON values                                                    *)
(***************************************************************************)
\* a text is a sequence of pieces: a blank, or a run of other characters
IsSpace(c) == c = " "

RECURSIVE lstrip(_)
lstrip(t) == IF t # <<>> /\ IsSpace(Head(t)) THEN lstrip(Tail(t)) ELSE t

RECURSIVE rstrip(_)
rstrip(t) == IF t # <<>> /\ IsSpace(t[Len(t)]) THEN rstrip(SubSeq(t, 1, Len(t) - 1)) ELSE t

\* str.strip()
strip(t) == rstrip(lstrip(t))

\* what json.loads can return; an object is the sequence of its members
JNull == [tag |-> "null"]

JNum(n) == [tag |-> "num", n |-> n]

JStr(chars) == [tag |-> "str", chars |-> chars]

JArr(items) == [tag |-> "arr", items |-> items]

JObj(members) == [tag |-> "obj", members |-> members]

\* Python's truth value of a decoded JSON value
Truthy(v) ==
    CASE v.tag = "null" -> FALSE
      [] v.tag = "num" -> v.n # 0
      [] v.tag = "str" -> v.chars # <<>>
      [] v.tag = "arr" -> v.items # <<>>
      [] v.tag = "obj" -> v.members # <<>>

\* dict.get(key, default)
DictGet(obj, key, default) ==
    LET hits == {i \in 1..Len(obj.members) : obj.members[i][1] = key}
    IN IF hits = {} THEN default
       ELSE obj.members[CHOOSE i \in hits : \A j \in hits : j <= i][2]

\* dict.get(key) or default
GetOr(obj, key, default) ==
    LET v == DictGet(obj, key, JNull)
    IN IF Truthy(v) THEN v ELSE default

(***************************************************************************)
(* speech/llm_bridge.py                                                    *)
(***************************************************************************)
FallbackReply == <<"...sorry, my head just went blank for a second. Can you repeat that?">>

\* _call_llm: the decoded response, or {} when the post raised, the status is
\* an error or the body is not JSON
_call_llm(outcome) ==
    IF outcome.post = "raises" THEN JObj(<<>>)
    ELSE IF ~outcome.ok THEN JObj(<<>>)
    ELSE IF outcome.body = <<>> THEN JObj(<<>>)
    ELSE outcome.body[1]

\* _extract_reply_text: every exception inside the try block gives ""
_extract_reply_text(raw) ==
    IF ~Truthy(raw) THEN JStr(<<>>)
    ELSE IF raw.tag # "obj" THEN JStr(<<>>)
    ELSE LET choices == GetOr(raw, "choices", JArr(<<>>))
         IN IF ~Truthy(choices) THEN JStr(<<>>)
            ELSE IF choices.tag # "arr" THEN JStr(<<>>)
            ELSE LET first == choices.items[1]
                 IN IF first.tag # "obj" THEN JStr(<<>>)
                    ELSE LET message == GetOr(first, "message", JObj(<<>>))
                         IN IF message.tag # "obj" THEN JStr(<<>>)
                            ELSE GetOr(message, "content", JStr(<<>>))

\* LlmBridge.generate_reply of the speech layer
generate_reply(outcome) ==
    LET extracted == _extract_reply_text(_call_llm(outcome))
        chosen == IF ~Truthy(extracted) THEN JStr(FallbackReply) ELSE extracted
    IN IF chosen.tag = "str"
       THEN [raised |-> FALSE, text |-> strip(chosen.chars)]
       ELSE [raised |-> TRUE, text |-> <<>>]

(***************************************************************************)
(* cortex/thinking/llm_bridge.py                                           *)
(***************************************************************************)
\* call_local_llm: nothing is caught here
call_local_llm(outcome) ==
    IF outcome.post = "raises" \/ ~outcome.ok \/ outcome.body = <<>>
    THEN [raised |-> TRUE, text |-> <<>>]
    ELSE LET data == outcome.body[1]
         IN IF data.tag # "obj" THEN [raised |-> TRUE, text |-> <<>>]
            ELSE LET response == DictGet(data, "response", JStr(<<>>))
                 IN IF response.tag # "str" THEN [raised |-> TRUE, text |-> <<>>]
                    ELSE [raised |-> FALSE, text |-> strip(response.chars)]

\* LlmBridge.generate_llm_reply
generate_llm_reply(user_text, mode, use_local_llm, outcome) ==
    LET r == call_local_llm(outcome)
        fallback == <<"(fallback-", mode, ") I heard you say: ">> \o user_text
    IN IF use_local_llm /\ ~r.raised
       THEN [raised |-> FALSE,
             text |-> IF strip(r.text) # <<>> THEN strip(r.text) ELSE <<"(...)">>]
       ELSE [raised |-> FALSE, text |-> fallback]

(***************************************************************************)
(* The external text-generation call and the two bridges                   *)
(***************************************************************************)
Texts == SeqsUpTo({" ", "hi"}, MaxTextLen)

\* the value found where the completion text is expected
Contents == {JNull, JNum(5), JArr(<<>>)} \cup {JStr(t) : t \in Texts}

\* a chat/completions response whose first choice carries c
Completion(c) ==
    JObj(<< <<"choices", JArr(<< JObj(<< <<"message", JObj(<< <<"content", c>> >>)>> >>) >>)>> >>)

\* a generate response carrying c
Generated(c) == JObj(<< <<"response", c>> >>)

JsonBodies ==
    {JNull, JNum(5), JStr(<<"hi">>), JArr(<<>>), JArr(<<JStr(<<"hi">>)>>), JObj(<<>>),
     JObj(<< <<"error", JStr(<<"hi">>)>> >>),
     JObj(<< <<"choices", JNull>> >>),
     JObj(<< <<"choices", JStr(<<"hi">>)>> >>),
     JObj(<< <<"choices", JArr(<<JStr(<<"hi">>)>>)>> >>),
     JObj(<< <<"choices", JArr(<<JObj(<< <<"message", JNull>> >>)>>)>> >>),
     JObj(<< <<"choices", JArr(<<JObj(<< <<"message", JStr(<<"hi">>)>> >>)>>)>> >>)}
    \cup {Completion(c) : c \in Contents}
    \cup {Generated(c) : c \in Contents}

\* requests.post raises (network error, timeout), or returns a response with
\* an error status, a body that is not JSON, or a JSON body
LlmOutcomes ==
    {[post |-> "raises", ok |-> FALSE, body |-> <<>>],
     [post |-> "returns", ok |-> FALSE, body |-> <<>>],
     [post |-> "returns", ok |-> FALSE, body |-> <<Completion(JStr(<<"hi">>))>>],
     [post |-> "returns", ok |-> TRUE, body |-> <<>>]}
    \cup {[post |-> "returns", ok |-> TRUE, body |-> <<b>>] : b \in JsonBodies}

InitBridge ==
    /\ IntentIdle /\ NeedsIdle /\ MoodIdle /\ FusionIdle /\ EmotionIdle /\ MemoryIdle
    /\ now = 0 /\ last_op = "init" /\ ops = 0 /\ ExtIdle

BridgeFrame == UNCHANGED <<intentVars, needsVars, now, moodVars, fusionVars,
                           emotionVars, memoryVars, initiativeVars, loopVars,
                           startupVars, handleVars, persistVars, libVars, cycleVars, idleVars, guardVars, greetVars, wakeVars, ops>>

\* step 17 of process_turn
GenerateReply(outcome) ==
    /\ llm_call' = [bridge |-> "speech", outcome |-> outcome]
    /\ reply' = generate_reply(outcome)
    /\ last_op' = "generate_reply"
    /\ BridgeFrame

\* the reply of the cortex bridge to a user text
GenerateLlmReply(user_text, mode, use_local_llm, outcome) ==
    /\ llm_call' = [bridge |-> "cortex", outcome |-> outcome, user_text |-> user_text,
                    mode |-> mode, use_local_llm |-> use_local_llm]
    /\ reply' = generate_llm_reply(user_text, mode, use_local_llm, outcome)
    /\ last_op' = "generate_llm_reply"
    /\ BridgeFrame

NextBridge ==
    \/ \E outcome \in LlmOutcomes : GenerateReply(outcome)
    \/ \E user_text \in {<<"hi">>, <<>>}, mode \in {"fast", "deep"}, use_local_llm \in BOOLEAN,
          outcome \in LlmOutcomes :
          GenerateLlmReply(user_text, mode, use_local_llm, outcome)

SpecBridge == InitBridge /\ [][NextBridge]_vars

(***************************************************************************)
(* nova.py: the event loop with main_async and TimeEngine.run              *)
(***************************************************************************)
\* TimeEngine.stop
stop(eng) == [eng EXCEPT !._running = FALSE]

\* a coroutine is resumed only when the one that was running has reached an
\* await: both run on the one event loop of asyncio.run
LoopIsFree_threaded == TRUE

LoopIsFree == current = "none"

\* the lines typed: an empty line, a command, two messages
LoopLines == {"", "exit", "i lost my keys", "brb"}

\* the seconds asyncio.sleep(check_interval) takes: 5, or more when the loop
\* was busy
LoopClockSteps == {5, 200}

InitLoop ==
    /\ IntentIdle /\ NeedsIdle /\ MoodIdle /\ FusionIdle /\ EmotionIdle /\ MemoryIdle
    /\ now = 0 /\ last_op = "init" /\ ops = 0 /\ ExtIdle

LoopFrame == UNCHANGED <<intentVars, needsVars, moodVars, fusionVars, memoryVars,
                         initiativeVars, bridgeVars, startupVars, handleVars,
                         persistVars, libVars, cycleVars, idleVars, guardVars, greetVars, wakeVars>>

\* input() returns in its thread: main_async can be resumed
InputArrives(text) ==
    /\ main_pc = "await_input"
    /\ ops < MaxLoopOps
    /\ pending_text' = text
    /\ main_pc' = "ready"
    /\ ops' = ops + 1
    /\ last_op' = "input"
    /\ UNCHANGED <<current, tick_pc, bridge_state, emotionVars, now>>
    /\ LoopFrame

\* the event loop resumes main_async
MainResume ==
    /\ LoopIsFree
    /\ main_pc = "ready"
    /\ current' = "main"
    /\ main_pc' = "handle"
    /\ last_op' = "main_resume"
    /\ UNCHANGED <<tick_pc, pending_text, bridge_state, emotionVars, now, ops>>
    /\ LoopFrame

\* nova.py lines 196-221 up to ear.hear: an empty line, exit (the finally
\* clause calls time_engine.stop and awaits the task), or a message, whose
\* handling by the bridge begins
MainHandle ==
    /\ current = "main"
    /\ main_pc = "handle"
    /\ IF pending_text = ""
       THEN /\ time_engine' = note_user_activity(time_engine, now)
            /\ main_pc' = "await_input"
            /\ current' = "none"
       ELSE IF pending_text = "exit"
       THEN /\ time_engine' = stop(time_engine)
            /\ main_pc' = "await_time_task"
            /\ current' = "none"
       ELSE /\ time_engine' = [note_user_activity(time_engine, now)
                                 EXCEPT !.last_user_text = pending_text]
            /\ main_pc' = "turn"
            /\ current' = "main"
    /\ last_op' = "main_handle"
    /\ UNCHANGED <<tick_pc, pending_text, bridge_state, emotional_state, emotion_map,
                   spoken, now, ops>>
    /\ LoopFrame

\* LlmBridge._handle_user_text writes its EmotionalState; the reply makes
\* Speech.on_event call note_nova_speak; main_async awaits the next line
TurnEnd(pick, order) ==
    /\ current = "main"
    /\ main_pc = "turn"
    /\ LET upd == update_emotional_state(bridge_state, emotion_map, pending_text, pick, order)
       IN /\ bridge_state' = upd.state
          /\ emotion_map' = upd.emotion_map
    /\ time_engine' = note_nova_speak(time_engine, now)
    /\ main_pc' = "await_input"
    /\ current' = "none"
    /\ last_op' = "turn"
    /\ UNCHANGED <<tick_pc, pending_text, emotional_state, spoken, now, ops>>
    /\ LoopFrame

\* the sleep of TimeEngine.run is over
SleepExpires(d) ==
    /\ tick_pc = "sleep"
    /\ ops < MaxLoopOps
    /\ now' = now + d
    /\ tick_pc' = "ready"
    /\ ops' = ops + 1
    /\ last_op' = "sleep_expires"
    /\ UNCHANGED <<current, main_pc, pending_text, bridge_state, emotionVars>>
    /\ LoopFrame

\* the event loop resumes TimeEngine.run after its await (line 72)
TickResume ==
    /\ LoopIsFree
    /\ tick_pc = "ready"
    /\ current' = "ticker"
    /\ tick_pc' = "tick"
    /\ last_op' = "tick_resume"
    /\ UNCHANGED <<main_pc, pending_text, bridge_state, emotionVars, now, ops>>
    /\ LoopFrame

\* self._tick() (line 73), then the loop condition (line 71)
TickEnd(lying) ==
    /\ current = "ticker"
    /\ tick_pc = "tick"
    /\ LET r == _tick(emotional_state, time_engine, now, lying)
       IN /\ emotional_state' = r.state
          /\ time_engine' = r.eng
          /\ spoken' = r.spoken
    /\ tick_pc' = IF time_engine._running THEN "sleep" ELSE "done"
    /\ current' = "none"
    /\ last_op' = "tick"
    /\ UNCHANGED <<main_pc, pending_text, bridge_state, emotion_map, now, ops>>
    /\ LoopFrame

\* await time_task (nova.py line 228)
AwaitTimeTask ==
    /\ LoopIsFree
    /\ main_pc = "await_time_task"
    /\ tick_pc = "done"
    /\ main_pc' = "done"
    /\ last_op' = "main_done"
    /\ UNCHANGED <<current, tick_pc, pending_text, bridge_state, emotionVars, now, ops>>
    /\ LoopFrame

NextLoop ==
    \/ \E text \in LoopLines : InputArrives(text)
    \/ MainResume
    \/ MainHandle
    \/ \E pick \in {"curious", "neutral"} :
          \E order \in SetOrders(IF main_pc = "turn"
                                 THEN CombinedShades(bridge_state, emotion_map, pending_text, pick)
                                 ELSE {}) :
             TurnEnd(pick, order)
    \/ \E d \in LoopClockSteps : SleepExpires(d)
    \/ TickResume
    \/ \E lying \in TickSamples(now) : TickEnd(lying)
    \/ AwaitTimeTask

SpecLoop == InitLoop /\ [][NextLoop]_vars

(***************************************************************************)
(* startup_engine.py: the greeting tasks on the event loop                 *)
(***************************************************************************)
\* a task is "none" (never created), "created" (not yet run), "sleeping" (at
\* its await), "ready" (its sleep is over), "cancelling" (cancel() was called
\* on it while it was pending: CancelledError is thrown into it when the loop
\* next runs it), "done" or "cancelled"
TaskPending(t) == t \in {"created", "sleeping", "ready", "cancelling"}

\* asyncio.Task.cancel(): nothing happens to a task that is over
TaskCancel(t) == IF TaskPending(t) THEN "cancelling" ELSE t

\* cancel() leaving the flag and the second task alone
cancel_first_task_only(su) ==
    [su EXCEPT !._task = IF @ # "none" THEN TaskCancel(@) ELSE @,
               !.cancel_calls = @ + 1]

\* StartupEngine.cancel
cancel(su) ==
    [su EXCEPT !.startup_active = FALSE,
               !._task = IF @ # "none" THEN TaskCancel(@) ELSE @,
               !._second_task = IF @ # "none" THEN TaskCancel(@) ELSE @,
               !.cancel_calls = @ + 1]

\* _generate_first and _generate_second: random.choice over the lines
FirstGreetings(state) ==
    {"Hey...", "Hi.", "Oh-hey.", "Hey Yuch.", "Hmm... hey."}
    \cup (IF state.fusion \in {"tender", "warm"} THEN {"Hi love.", "Hey you."} ELSE {})

SecondGreetings(state) ==
    IF state.fusion = "insecure" THEN {"I wasn't sure if you were here..."}
    ELSE IF state.fusion = "tender" THEN {"I was just thinking about you."}
    ELSE IF state.mood = "bored" THEN {"So... what's up?"}
    ELSE {"How are you?", "Everything alright?", "What're you doing today?"}

\* _choose_delay: the ends of the range random.uniform draws from, in seconds
_choose_delay(state) ==
    IF state.mood \in {"sad", "hurt", "melancholy"} THEN {30, 60}
    ELSE IF state.fusion \in {"insecure", "clingy"} THEN {5, 10}
    ELSE IF state.fusion \in {"tender", "warm"} THEN {5, 15}
    ELSE {5, 30}

\* the sleep before the second bubble: random.uniform(5, 18)
SecondDelays == {5, 18}

InitStartup ==
    /\ IntentIdle /\ NeedsIdle /\ MoodIdle /\ FusionIdle /\ EmotionIdle /\ MemoryIdle
    /\ now = 0 /\ last_op = "init" /\ ops = 0 /\ ExtIdle

StartupFrame == UNCHANGED <<intentVars, needsVars, moodVars, fusionVars, memoryVars,
                            emotional_state, emotion_map, time_engine,
                            initiativeVars, bridgeVars, loopVars, handleVars,
                            persistVars, libVars, cycleVars, idleVars, guardVars, greetVars, wakeVars, ops>>

\* the caller (main_async on the user's first input, nova.py line 195)
Cancel ==
    /\ startup.cancel_calls < MaxCancels
    /\ startup' = cancel(startup)
    /\ UNCHANGED spoken
    /\ last_op' = "cancel"
    /\ UNCHANGED now
    /\ StartupFrame

\* _run_startup up to its await (lines 49-50)
RunStartupBegin ==
    /\ startup._task = "created"
    /\ startup' = [startup EXCEPT !._task = "sleeping"]
    /\ UNCHANGED spoken
    /\ last_op' = "run_startup_begin"
    /\ UNCHANGED now
    /\ StartupFrame

\* a sleep is over, d seconds after it began
TimerFires(task, d) ==
    /\ startup[task] = "sleeping"
    /\ startup' = [startup EXCEPT ![task] = "ready"]
    /\ now' = now + d
    /\ UNCHANGED spoken
    /\ last_op' = "timer_fires"
    /\ StartupFrame

\* the loop runs a task on which cancel() was called: CancelledError
TaskCancelled(task) ==
    /\ startup[task] = "cancelling"
    /\ startup' = [startup EXCEPT ![task] = "cancelled"]
    /\ UNCHANGED spoken
    /\ last_op' = "task_cancelled"
    /\ UNCHANGED now
    /\ StartupFrame

\* _run_startup after its await (lines 52-58)
RunStartupEnd(text) ==
    /\ startup._task = "ready"
    /\ IF ~startup.startup_active
       THEN /\ startup' = [startup EXCEPT !._task = "done"]
            /\ UNCHANGED spoken
       ELSE /\ startup' = [startup EXCEPT !.first_sent = TRUE, !._task = "done",
                                          !._second_task = "created"]
            /\ spoken' = text
    /\ last_op' = "run_startup_end"
    /\ UNCHANGED now
    /\ StartupFrame

\* _maybe_second_bubble up to its await (lines 118-122)
SecondBubbleBegin(draw) ==
    /\ startup._second_task = "created"
    /\ startup' = [startup EXCEPT !._second_task = IF draw > 450 THEN "done" ELSE "sleeping"]
    /\ UNCHANGED spoken
    /\ last_op' = "second_bubble_begin"
    /\ UNCHANGED now
    /\ StartupFrame

\* _maybe_second_bubble after its await (lines 124-129)
SecondBubbleEnd(text) ==
    /\ startup._second_task = "ready"
    /\ IF ~startup.startup_active
       THEN /\ startup' = [startup EXCEPT !._second_task = "done"]
            /\ UNCHANGED spoken
       ELSE /\ startup' = [startup EXCEPT !.second_sent = TRUE, !._second_task = "done"]
            /\ spoken' = text
    /\ last_op' = "second_bubble_end"
    /\ UNCHANGED now
    /\ StartupFrame

NextStartup ==
    \/ Cancel
    \/ RunStartupBegin
    \/ \E d \in _choose_delay(emotional_state) : TimerFires("_task", d)
    \/ \E d \in SecondDelays : TimerFires("_second_task", d)
    \/ \E task \in {"_task", "_second_task"} : TaskCancelled(task)
    \/ \E text \in FirstGreetings(emotional_state) : RunStartupEnd(text)
    \/ \E draw \in RandomDraws : SecondBubbleBegin(draw)
    \/ \E text \in SecondGreetings(emotional_state) : SecondBubbleEnd(text)

SpecStartup == InitStartup /\ [][NextStartup]_vars

(***************************************************************************)
(* LlmBridge._handle_user_text with its PrivacyGuard                       *)
(***************************************************************************)
MaxUserTurns == 4

\* STAGE_DEFAULTS["acquaintance"]["we"], the stage LlmBridge.__init__ passes;
\* set_stage is never called
identity_we == 50

last_people_timeout == 120

max_memory == 10

\* the user lines of the model, each with the results of the string tests the
\* handler makes on it: lower is text.strip().lower(); we is
\* ("we " in lower or lower.startswith("we")); we_first is
\* lower.startswith("we "); probe is any(t in lower for t in triggers);
\* apology is any(word in lowered ...) of on_user_turn; tag is the topic tag
\* of _register_attempt; people is _extract_people; long is len(text) >= 40;
\* deep is lower.startswith("/deep") and clean the text after the prefix
PlainLine(lower) ==
    [lower |-> lower, we |-> FALSE, we_first |-> FALSE, probe |-> FALSE,
     apology |-> FALSE, tag |-> "other", people |-> {}, long |-> FALSE,
     deep |-> FALSE, clean |-> None]

LineFacts ==
    ("we should go" :>
        [PlainLine("we should go") EXCEPT !.we = TRUE, !.we_first = TRUE]) @@
    ("what did she say" :>
        [PlainLine("what did she say") EXCEPT !.probe = TRUE, !.tag = "she"]) @@
    ("sorry, what did she say" :>
        [PlainLine("sorry, what did she say") EXCEPT
            !.probe = TRUE, !.apology = TRUE, !.tag = "she"]) @@
    ("we know what did they say" :>
        [PlainLine("we know what did they say") EXCEPT
            !.we = TRUE, !.we_first = TRUE, !.probe = TRUE, !.tag = "he"]) @@
    ("/deep what did she say" :>
        [PlainLine("/deep what did she say") EXCEPT
            !.probe = TRUE, !.tag = "she", !.deep = TRUE, !.clean = "what did she say"]) @@
    ("i met Anna" :> [PlainLine("i met anna") EXCEPT !.people = {"anna"}]) @@
    ("i walked along the river for hours today" :>
        [PlainLine("i walked along the river for hours today") EXCEPT !.long = TRUE]) @@
    ("sorry" :> [PlainLine("sorry") EXCEPT !.apology = TRUE])

UserLines == {"we should go", "what did she say", "sorry, what did she say",
              "we know what did they say", "/deep what did she say", "i met Anna",
              "i walked along the river for hours today"}

_looks_like_privacy_probe(text) == LineFacts[text].probe

\* on_user_turn releasing the lock on any message that is not a probe
on_user_turn_unlocking(st, user_text) ==
    IF LineFacts[user_text].apology
    THEN [st EXCEPT !.consecutive_attempts = 0, !.hard_locked = FALSE,
                    !.recently_forgiven = TRUE]
    ELSE IF ~_looks_like_privacy_probe(user_text)
    THEN LET c == IF st.consecutive_attempts > 0 THEN st.consecutive_attempts - 1
                  ELSE st.consecutive_attempts
         IN [st EXCEPT !.consecutive_attempts = c, !.hard_locked = FALSE]
    ELSE st

\* PrivacyGuard.on_user_turn
on_user_turn(st, user_text) ==
    IF LineFacts[user_text].apology
    THEN [st EXCEPT !.consecutive_attempts = 0, !.hard_locked = FALSE,
                    !.recently_forgiven = TRUE]
    ELSE IF ~_looks_like_privacy_probe(user_text)
    THEN LET c == IF st.consecutive_attempts > 0 THEN st.consecutive_attempts - 1
                  ELSE st.consecutive_attempts
         IN [st EXCEPT !.consecutive_attempts = c,
                       !.hard_locked = IF c = 0 THEN FALSE ELSE @]
    ELSE st

_register_attempt(st, text, t) ==
    [st EXCEPT !.consecutive_attempts = @ + 1, !.total_attempts = @ + 1,
               !.last_attempt_time = t, !.last_topic_tag = LineFacts[text].tag]

\* the replies of the guard: the first soft, firm and warning line, and the
\* ellipsis of the lock
SoftLine == <<"Sorry, Yuch... I shouldn't say.">>

FirmLine == <<"Yuch... please don't push me on this.">>

WarningLine == <<"Yuch. If you pry one more time about this, I'm going to stop talking about it.">>

Ellipsis == <<"...">>

\* maybe_block_request answering the fourth probe with silence without
\* setting the lock
maybe_block_request_unlocked(st, user_text, t) ==
    IF st.hard_locked /\ _looks_like_privacy_probe(user_text)
    THEN [state |-> st, override |-> Ellipsis]
    ELSE IF ~_looks_like_privacy_probe(user_text)
    THEN [state |-> st, override |-> None]
    ELSE LET st1 == _register_attempt(st, user_text, t)
             lvl == st1.consecutive_attempts
         IN IF lvl <= 1 THEN [state |-> st1, override |-> SoftLine]
            ELSE IF lvl = 2 THEN [state |-> st1, override |-> FirmLine]
            ELSE IF lvl = 3 THEN [state |-> st1, override |-> WarningLine]
            ELSE [state |-> st1, override |-> Ellipsis]

\* PrivacyGuard.maybe_block_request: the guard's state afterwards and the
\* override, None when the request is not blocked
maybe_block_request(st, user_text, t) ==
    IF st.hard_locked /\ _looks_like_privacy_probe(user_text)
    THEN [state |-> st, override |-> Ellipsis]
    ELSE IF ~_looks_like_privacy_probe(user_text)
    THEN [state |-> st, override |-> None]
    ELSE LET st1 == _register_attempt(st, user_text, t)
             lvl == st1.consecutive_attempts
             session_factor == IF st1.total_attempts < 5 THEN 1 ELSE 2
         IN IF lvl <= 1 THEN [state |-> st1, override |-> SoftLine]
            ELSE IF lvl = 2 \/ (lvl = 1 /\ session_factor > 1)
            THEN [state |-> st1, override |-> FirmLine]
            ELSE IF lvl = 3 THEN [state |-> st1, override |-> WarningLine]
            ELSE [state |-> [st1 EXCEPT !.hard_locked = TRUE], override |-> Ellipsis]

\* LlmBridge.select_mode
select_mode(text) ==
    IF LineFacts[text].deep THEN [clean |-> LineFacts[text].clean, mode |-> "deep"]
    ELSE [clean |-> text, mode |-> "fast"]

\* LlmBridge.resolve_we; episodic says whether the memory library finds an
\* episodic match for the message
resolve_we(mem, msg, t, episodic) ==
    IF ~LineFacts[msg].we THEN None
    ELSE IF mem.last_people # {} /\ t - mem._last_people_timestamp < last_people_timeout
    THEN "other"
    ELSE IF episodic
    THEN IF identity_we > 50 THEN "nova" ELSE None
    ELSE None

WeQuestion == <<"When you say 'we', who do you mean?">>

\* LlmBridge.remember, with a memory library attached (nova.py passes one);
\* none of the model's lines starts with "i am" or holds a fact pattern
remember(mem, primary, msg, t) ==
    LET people == LineFacts[msg].people
        m1 == IF people # {}
              THEN [mem EXCEPT !.last_people = people, !._last_people_timestamp = t]
              ELSE mem
        buf == Append(m1.memory_buffer, msg)
        m2 == [m1 EXCEPT !.memory_buffer = IF Len(buf) > max_memory THEN Tail(buf) ELSE buf]
    IN IF LineFacts[msg].we_first
       THEN [m2 EXCEPT !.library = Append(@, "shared_event")]
       ELSE LET m3 == IF primary \in {"sad", "hurt", "happy", "warm", "curious",
                                      "nostalgic", "shy"}
                      THEN [m2 EXCEPT !.library = Append(@, "emotion_event")]
                      ELSE m2
            IN [m3 EXCEPT !._pending_episodic = msg]

\* LlmBridge._commit_episodic_if_meaningful
_commit_episodic_if_meaningful(mem, t) ==
    IF mem._pending_episodic = None THEN mem
    ELSE IF ~LineFacts[mem._pending_episodic].long
    THEN [mem EXCEPT !._pending_episodic = None]
    ELSE IF mem._last_episodic_ts # 0 /\ t - mem._last_episodic_ts < 300
    THEN mem
    ELSE [mem EXCEPT !.library = Append(@, "episodic"), !._last_episodic_ts = t,
                     !._pending_episodic = None]

\* the handler without the return that ends the turn after a boundary reply
_handle_user_text_no_return(pv, mem, es, emap, raw_text, t, episodic, pick, order, outcome) ==
    LET pv1 == on_user_turn(pv, raw_text)
        sm == select_mode(raw_text)
        res == resolve_we(mem, sm.clean, t, episodic)
        heard == [mem EXCEPT !.last_user_time = t]
        upd == update_emotional_state(es, emap, LineFacts[sm.clean].lower, pick, order)
        blk == maybe_block_request(pv1, sm.clean, t)
        gen == generate_llm_reply(<<sm.clean>>, sm.mode, TRUE, outcome)
        boundary == IF blk.override # None THEN <<blk.override>> ELSE <<>>
    IN IF res = None /\ LineFacts[sm.clean].we
       THEN [privacy |-> pv1, mem |-> [heard EXCEPT !.last_nova_time = t],
             state |-> es, emotion_map |-> emap,
             out |-> [text |-> raw_text, replies |-> <<WeQuestion>>,
                      llm_calls |-> 0, intakes |-> 0]]
       ELSE [privacy |-> blk.state,
             mem |-> _commit_episodic_if_meaningful(
                        [remember(heard, upd.state.primary, sm.clean, t)
                            EXCEPT !.last_nova_time = t], t),
             state |-> upd.state, emotion_map |-> upd.emotion_map,
             out |-> [text |-> raw_text, replies |-> boundary \o <<gen.text>>,
                      llm_calls |-> 1, intakes |-> 1]]

\* LlmBridge._handle_user_text on a bridge registered with the core (events
\* reach on_event only through NovaCore.emit, after register): what the turn
\* leaves behind.  t is time.time() during the turn; the decoration of the
\* generated text (process_speech) is left out.
_handle_user_text(pv, mem, es, emap, raw_text, t, episodic, pick, order, outcome) ==
    LET pv1 == on_user_turn(pv, raw_text)
        sm == select_mode(raw_text)
        res == resolve_we(mem, sm.clean, t, episodic)
        heard == [mem EXCEPT !.last_user_time = t]
        upd == update_emotional_state(es, emap, LineFacts[sm.clean].lower, pick, order)
        blk == maybe_block_request(pv1, sm.clean, t)
        gen == generate_llm_reply(<<sm.clean>>, sm.mode, TRUE, outcome)
    IN IF res = None /\ LineFacts[sm.clean].we
       THEN [privacy |-> pv1, mem |-> [heard EXCEPT !.last_nova_time = t],
             state |-> es, emotion_map |-> emap,
             out |-> [text |-> raw_text, replies |-> <<WeQuestion>>,
                      llm_calls |-> 0, intakes |-> 0]]
       ELSE IF blk.override # None
       THEN [privacy |-> blk.state, mem |-> [heard EXCEPT !.last_nova_time = t],
             state |-> upd.state, emotion_map |-> upd.emotion_map,
             out |-> [text |-> raw_text, replies |-> <<blk.override>>,
                      llm_calls |-> 0, intakes |-> 0]]
       ELSE [privacy |-> blk.state,
             mem |-> _commit_episodic_if_meaningful(
                        [remember(heard, upd.state.primary, sm.clean, t)
                            EXCEPT !.last_nova_time = t], t),
             state |-> upd.state, emotion_map |-> upd.emotion_map,
             out |-> [text |-> raw_text, replies |-> <<gen.text>>,
                      llm_calls |-> 1, intakes |-> 1]]

\* the seconds between two user lines
TurnGaps == {1, 200}

\* the external call of a normal turn fails, or returns a text
HandleOutcomes ==
    {[post |-> "raises", ok |-> FALSE, body |-> <<>>],
     [post |-> "returns", ok |-> TRUE, body |-> <<Generated(JStr(<<"hi">>))>>]}

InitHandle ==
    /\ IntentIdle /\ NeedsIdle /\ MoodIdle /\ FusionIdle /\ EmotionIdle /\ MemoryIdle
    /\ now = 0 /\ last_op = "init" /\ ops = 0 /\ ExtIdle

\* USER_TEXT reaches LlmBridge.on_event
HandleUserText(raw_text, d, episodic, pick, order, outcome) ==
    /\ ops < MaxUserTurns
    /\ now' = now + d
    /\ \E r \in {_handle_user_text(privacy, bridge_mem, bridge_state, emotion_map,
                                    raw_text, now + d, episodic, pick, order, outcome)} :
          /\ privacy' = r.privacy
          /\ bridge_mem' = r.mem
          /\ bridge_state' = r.state
          /\ emotion_map' = r.emotion_map
          /\ turn_out' = r.out
    /\ last_op' = "user_text"
    /\ ops' = ops + 1
    /\ UNCHANGED <<intentVars, needsVars, moodVars, fusionVars, memoryVars,
                   emotional_state, time_engine, spoken, initiativeVars, bridgeVars,
                   current, main_pc, tick_pc, pending_text, startupVars, persistVars, libVars, cycleVars, idleVars, guardVars, greetVars, wakeVars>>

NextHandle ==
    \E raw_text \in UserLines, d \in TurnGaps, episodic \in BOOLEAN,
       pick \in {"curious", "neutral"}, outcome \in HandleOutcomes :
       \E order \in SetOrders(CombinedShades(bridge_state, emotion_map,
                                LineFacts[select_mode(raw_text).clean].lower, pick)) :
          HandleUserText(raw_text, d, episodic, pick, order, outcome)

SpecHandle == InitHandle /\ [][NextHandle]_vars

(***************************************************************************)
(* Saving and loading the EmotionalState: emotional_state.py,              *)
(* state_manager.py, and the attributes BrainLoop.process_turn adds        *)
(***************************************************************************)
MaxPersistOps == 4

\* the fields of the dataclass, in their order
DeclaredFields == <<"baseline", "mood", "primary", "secondary", "history",
                    "last_update_ts", "fusion", "last_fusion_update">>

\* json.dump of a field's value: str, None, float, or a list of str
JsonOf(field, v) ==
    IF field \in {"secondary", "history"}
    THEN JArr([i \in 1..Len(v) |-> JStr(<<v[i]>>)])
    ELSE IF field \in {"last_update_ts", "last_fusion_update"} THEN JNum(v)
    ELSE IF v = None THEN JNull
    ELSE JStr(<<v>>)

\* the Python value json.load gives back for a string or null
PyStr(j) == IF j.tag = "null" THEN None ELSE j.chars[1]

\* list(...) of a loaded list of strings
PyList(j) == [i \in 1..Len(j.items) |-> PyStr(j.items[i])]

\* EmotionalState.to_dict() as json.dump writes it: asdict(self) holds the
\* eight declared fields, and no attribute set on the instance afterwards
to_dict(state) ==
    JObj([i \in 1..Len(DeclaredFields) |->
            <<DeclaredFields[i], JsonOf(DeclaredFields[i], state[DeclaredFields[i]])>>])

\* EmotionalState.from_dict(data) at time t
from_dict(data, t) ==
    [baseline |-> PyStr(DictGet(data, "baseline", JStr(<<"curious">>))),
     mood |-> PyStr(DictGet(data, "mood", JStr(<<"neutral">>))),
     primary |-> PyStr(DictGet(data, "primary", JStr(<<"neutral">>))),
     secondary |-> PyList(DictGet(data, "secondary", JArr(<<>>))),
     history |-> PyList(DictGet(data, "history", JArr(<<>>))),
     last_update_ts |-> DictGet(data, "last_update_ts", JNum(t)).n,
     fusion |-> PyStr(DictGet(data, "fusion", JNull)),
     last_fusion_update |-> DictGet(data, "last_fusion_update", JNum(t)).n,
     intensity |-> <<>>, stability |-> <<>>]

\* save_emotional_state(state): the file afterwards
save_emotional_state(state) == <<to_dict(state)>>

\* load_emotional_state() at time t
load_emotional_state(file, t) ==
    IF file = <<>> THEN EmotionalStateAt(t)
    ELSE IF file[1].tag # "obj" THEN EmotionalStateAt(t)
    ELSE from_dict(file[1], t)

\* BrainLoop._estimate_intensity
_estimate_intensity(state) ==
    IF state.history = <<>> THEN 300
    ELSE LET count == Count(LastN(state.history, 5), state.primary)
             base == IF state.primary \notin {"neutral", "bored"} THEN 400 ELSE 300
         IN clamp(base + 100 * count)

\* the six fields update_emotional_state works on
SixOf(state) ==
    [baseline |-> state.baseline, mood |-> state.mood, primary |-> state.primary,
     secondary |-> state.secondary, history |-> state.history, fusion |-> state.fusion]

PersistGaps == {1, 60}

InitPersist ==
    /\ IntentIdle /\ NeedsIdle /\ MoodIdle /\ FusionIdle /\ EmotionIdle /\ MemoryIdle
    /\ now = 0 /\ last_op = "init" /\ ops = 0 /\ ExtIdle

PersistFrame == UNCHANGED <<intentVars, needsVars, moodVars, fusionVars, memoryVars,
                            emotional_state, time_engine, spoken, initiativeVars,
                            bridgeVars, loopVars, startupVars, handleVars,
                            libVars, cycleVars, idleVars, guardVars, greetVars, wakeVars>>

\* step 1 of BrainLoop.process_turn (lines 133-139): the emotion update, which
\* stamps the state, then the two attributes set on it
ProcessTurnEmotion(text, pick, order, d) ==
    /\ ops < MaxPersistOps
    /\ now' = now + d
    /\ \E upd \in {update_emotional_state(SixOf(live), emotion_map, text, pick, order)} :
          /\ emotion_map' = upd.emotion_map
          /\ live' = [baseline |-> upd.state.baseline, mood |-> upd.state.mood,
                      primary |-> upd.state.primary, secondary |-> upd.state.secondary,
                      history |-> upd.state.history, last_update_ts |-> now + d,
                      fusion |-> upd.state.fusion,
                      last_fusion_update |-> IF is_avoided(emotion_map, text)
                                             THEN live.last_fusion_update ELSE now + d,
                      intensity |-> <<_estimate_intensity(upd.state)>>,
                      stability |-> <<700>>]
    /\ last_op' = "process_turn"
    /\ ops' = ops + 1
    /\ UNCHANGED <<state_file, loaded>>
    /\ PersistFrame

\* save_emotional_state(state) on the state in memory
SaveState ==
    /\ ops < MaxPersistOps
    /\ state_file' = save_emotional_state(live)
    /\ last_op' = "save"
    /\ ops' = ops + 1
    /\ UNCHANGED <<live, loaded, emotion_map, now>>
    /\ PersistFrame

\* load_emotional_state(), d seconds later
LoadState(d) ==
    /\ ops < MaxPersistOps
    /\ now' = now + d
    /\ loaded' = <<load_emotional_state(state_file, now + d)>>
    /\ last_op' = "load"
    /\ ops' = ops + 1
    /\ UNCHANGED <<live, state_file, emotion_map>>
    /\ PersistFrame

NextPersist ==
    \/ \E text \in Stimuli, pick \in {"curious", "neutral"}, d \in PersistGaps :
          \E order \in SetOrders(CombinedShades(SixOf(live), emotion_map, text, pick)) :
             ProcessTurnEmotion(text, pick, order, d)
    \/ SaveState
    \/ \E d \in PersistGaps : LoadState(d)

SpecPersist == InitPersist /\ [][NextPersist]_vars

(***************************************************************************)
(* The reinforcement map: update_emotion as the feedback entry point, and  *)
(* update_emotional_state reading the map                                  *)
(***************************************************************************)
MaxAvoidOps == 5

\* the reinforcements a caller of update_emotion passes
Reinforcements == {-1, 1}

InitAvoid ==
    /\ EmotionIdle /\ now = 0
    /\ IntentIdle /\ NeedsIdle /\ MoodIdle /\ FusionIdle /\ MemoryIdle
    /\ last_op = "init" /\ ops = 0 /\ ExtIdle

\* emotion_memory_map.update_emotion(emotion_map, stimulus, new_emotion, reinforce)
Reinforce(stimulus, new_emotion, reinforce) ==
    /\ ops < MaxAvoidOps
    /\ emotion_map' = update_emotion(emotion_map, stimulus, new_emotion, reinforce)
    /\ last_op' = "reinforce"
    /\ ops' = ops + 1
    /\ UNCHANGED <<emotional_state, time_engine, spoken, now>>
    /\ EmotionFrame

\* a user line is heard: update_emotional_state(state, text)
Hear(text, pick, order) ==
    /\ ops < MaxAvoidOps
    /\ \E upd \in {update_emotional_state(emotional_state, emotion_map, text, pick, order)} :
          /\ emotional_state' = upd.state
          /\ emotion_map' = upd.emotion_map
    /\ time_engine' = [time_engine EXCEPT !.last_user_text = text]
    /\ last_op' = "hear"
    /\ ops' = ops + 1
    /\ UNCHANGED <<spoken, now>>
    /\ EmotionFrame

NextAvoid ==
    \/ \E stimulus \in {"i lost my keys", "brb"}, new_emotion \in {"sad", "happy"},
          reinforce \in Reinforcements : Reinforce(stimulus, new_emotion, reinforce)
    \/ \E text \in {"i lost my keys", "brb", "good fun"}, pick \in {"curious", "neutral"} :
          \E order \in SetOrders(CombinedShades(emotional_state, emotion_map, text, pick)) :
             Hear(text, pick, order)

SpecAvoid == InitAvoid /\ [][NextAvoid]_vars

(***************************************************************************)
(* Start-up of the memory library: nova.py main_async, lines 94-95         *)
(***************************************************************************)
InitLibrary ==
    /\ lib_files \in [1..5 -> Files]
    /\ memory_lib = MemoryLibraryNew
    /\ lib_pc = "start"
    /\ EmotionIdle /\ now = 0
    /\ IntentIdle /\ NeedsIdle /\ MoodIdle /\ FusionIdle /\ MemoryIdle
    /\ InitiativeIdle /\ BridgeIdle /\ LoopIdle /\ StartupIdle
    /\ HandleIdle /\ PersistIdle /\ CycleIdle /\ IdleIdle /\ GuardIdle /\ GreetIdle /\ WakeIdle
    /\ last_op = "init" /\ ops = 0

LibraryFrame == UNCHANGED <<intentVars, needsVars, moodVars, fusionVars, emotionVars,
                            memoryVars, initiativeVars, bridgeVars, loopVars,
                            startupVars, handleVars, persistVars, cycleVars, idleVars, guardVars, greetVars, wakeVars, now>>

\* memory_lib.load() in main_async: nothing catches what it raises, so the
\* exception leaves main_async and asyncio.run
LoadLibrary ==
    /\ lib_pc = "start"
    /\ \E r \in {load(memory_lib, lib_files)} :
          /\ memory_lib' = r
          /\ lib_pc' = IF r.raised # "" THEN "raised" ELSE "loaded"
    /\ last_op' = "load"
    /\ ops' = ops + 1
    /\ UNCHANGED lib_files
    /\ LibraryFrame

\* main_async goes on after load returned (line 98 onwards)
ContinueStartup ==
    /\ lib_pc = "loaded"
    /\ lib_pc' = "running"
    /\ last_op' = "continue"
    /\ ops' = ops + 1
    /\ UNCHANGED <<lib_files, memory_lib>>
    /\ LibraryFrame

NextLibrary == LoadLibrary \/ ContinueStartup

SpecLibrary == InitLibrary /\ [][NextLibrary]_vars

(***************************************************************************)
(* The daily cycle: DailyCycleEngine.sleep and wake as process_turn calls  *)
(* them (BrainLoop.py 146-159)                                             *)
(***************************************************************************)
MaxCycleOps == 4

\* sleep(nova_state), lines 31-46
sleep(cycle, ns) ==
    [cycle |-> [cycle EXCEPT !.is_asleep = TRUE, !.hours_slept = 0],
     nova_state |-> [ns EXCEPT !.emotion.intensity = Mul(@, 4, 10),
                               !.mood.valence = Mul(@, 7, 10),
                               !.relationship.trust = @ + 10]]

\* wake(nova_state), lines 62-80
wake(cycle, ns) ==
    [cycle |-> [cycle EXCEPT !.is_asleep = FALSE],
     nova_state |-> [ns EXCEPT !.needs.fatigue = 100,
                               !.needs.hunger = @ + 200,
                               !.needs.thirst = @ + 150,
                               !.drive.focus = @ + 100,
                               !.emotion.stability = @ + 100]]

\* the nova_state the cycle starts from: every scalar within its range
DailyStates ==
    {[emotion |-> [intensity |-> i, stability |-> st],
      mood |-> [valence |-> 0],
      relationship |-> [trust |-> t],
      needs |-> [fatigue |-> 800, hunger |-> h, thirst |-> th],
      drive |-> [focus |-> 500]] :
        i \in {0, 800}, st \in {700, 950}, t \in {0, 500, 1000},
        h \in {0, 500, 900}, th \in {0, 900}}

InitCycle ==
    /\ daily_cycle = DailyCycleStateNew
    /\ daily_state \in DailyStates
    /\ EmotionIdle /\ now = 0
    /\ IntentIdle /\ NeedsIdle /\ MoodIdle /\ FusionIdle /\ MemoryIdle
    /\ InitiativeIdle /\ BridgeIdle /\ LoopIdle /\ StartupIdle
    /\ HandleIdle /\ PersistIdle /\ LibIdle /\ IdleIdle /\ GuardIdle /\ GreetIdle /\ WakeIdle
    /\ last_op = "init" /\ ops = 0

CycleFrame == UNCHANGED <<intentVars, needsVars, moodVars, fusionVars, emotionVars,
                          memoryVars, initiativeVars, bridgeVars, loopVars,
                          startupVars, handleVars, persistVars, libVars, idleVars, guardVars, greetVars, wakeVars, now>>

\* process_turn, lines 151-159: not asleep, and check_sleep_need said yes
Sleep ==
    /\ ops < MaxCycleOps
    /\ ~daily_cycle.is_asleep
    /\ \E r \in {sleep(daily_cycle, daily_state)} :
          /\ daily_cycle' = r.cycle
          /\ daily_state' = r.nova_state
    /\ last_op' = "sleep"
    /\ ops' = ops + 1
    /\ CycleFrame

\* process_turn, lines 146-149: asleep, and update_sleep found six hours slept
Wake ==
    /\ ops < MaxCycleOps
    /\ daily_cycle.is_asleep
    /\ \E r \in {wake(daily_cycle, daily_state)} :
          /\ daily_cycle' = r.cycle
          /\ daily_state' = r.nova_state
    /\ last_op' = "wake"
    /\ ops' = ops + 1
    /\ CycleFrame

NextCycle == Sleep \/ Wake

SpecCycle == InitCycle /\ [][NextCycle]_vars

(***************************************************************************)
(* One idle period after another: the ticker of TimeEngine.run between     *)
(* the user's lines, over a clock long enough for two sleeps               *)
(***************************************************************************)
MaxIdleClock == 5000

MaxIdleTurns == 2

IdleClockSteps == {200, 600}

\* the stage a tick fired, from what it said
StageOf(said) ==
    IF said = "idle ping" THEN <<"ping">>
    ELSE IF said = "[Nova lies down quietly on her bed, relaxing.]" THEN <<"lie_down">>
    ELSE IF said = "[Nova's breathing slows as she drifts into a deep sleep...]"
    THEN <<"fall_asleep">>
    ELSE <<>>

InitIdle ==
    /\ EmotionIdle /\ now = 0
    /\ IntentIdle /\ NeedsIdle /\ MoodIdle /\ FusionIdle /\ MemoryIdle
    /\ last_op = "init" /\ ops = 0 /\ ExtIdle

IdleFrame == UNCHANGED <<intentVars, needsVars, moodVars, fusionVars, memoryVars,
                         initiativeVars, bridgeVars, loopVars, startupVars,
                         handleVars, persistVars, libVars, cycleVars, guardVars, greetVars, wakeVars>>

\* a user line between two idle periods (nova.py lines 218-221), as UserTurn
IdleUserTurn(text, pick, order) ==
    /\ ops < MaxIdleTurns
    /\ LET eng1 == [note_user_activity(time_engine, now) EXCEPT !.last_user_text = text]
           upd == update_emotional_state(emotional_state, emotion_map, text, pick, order)
       IN /\ emotional_state' = upd.state
          /\ emotion_map' = upd.emotion_map
          /\ time_engine' = note_nova_speak(eng1, now)
    /\ spoken' = None
    /\ stages' = <<>>
    /\ last_op' = "turn"
    /\ ops' = ops + 1
    /\ UNCHANGED now
    /\ IdleFrame

\* one round of TimeEngine.run, as Tick, with the stage it fired recorded
IdleTick(d, lying) ==
    /\ time_engine._running
    /\ now + d <= MaxIdleClock
    /\ now' = now + d
    /\ \E r \in {_tick(emotional_state, time_engine, now + d, lying)} :
          /\ emotional_state' = r.state
          /\ time_engine' = r.eng
          /\ spoken' = r.spoken
          /\ stages' = stages \o StageOf(r.spoken)
    /\ last_op' = "tick"
    /\ UNCHANGED <<emotion_map, ops>>
    /\ IdleFrame

NextIdle ==
    \/ \E text \in {"brb", "nothing"}, pick \in {"curious", "neutral"} :
          \E order \in SetOrders(CombinedShades(emotional_state, emotion_map, text, pick)) :
             IdleUserTurn(text, pick, order)
    \/ \E d \in IdleClockSteps : \E lying \in TickSamples(now + d) : IdleTick(d, lying)

SpecIdle == InitIdle /\ [][NextIdle]_vars

(***************************************************************************)
(* PrivacyGuard over a session: every user message goes through            *)
(* on_user_turn and then maybe_block_request (llm_bridge.py 281-283, 316)  *)
(***************************************************************************)
MaxGuardTurns == 8

\* a probe, an apology, a message about something else
GuardLines == {"what did she say", "sorry", "i met Anna"}

KindOf(text) ==
    IF LineFacts[text].apology THEN "apology"
    ELSE IF LineFacts[text].probe THEN "probe"
    ELSE "other"

\* the line the guard gives at level lvl of the escalation
LineAt(lvl) ==
    IF lvl <= 1 THEN SoftLine
    ELSE IF lvl = 2 THEN FirmLine
    ELSE IF lvl = 3 THEN WarningLine
    ELSE Ellipsis

InitPrivacy ==
    /\ IntentIdle /\ NeedsIdle /\ MoodIdle /\ FusionIdle /\ EmotionIdle /\ MemoryIdle
    /\ now = 0 /\ last_op = "init" /\ ops = 0 /\ ExtIdle

PrivacyFrame == UNCHANGED <<intentVars, needsVars, moodVars, fusionVars, emotionVars,
                            memoryVars, initiativeVars, bridgeVars, loopVars,
                            startupVars, bridge_mem, turn_out, persistVars, libVars,
                            cycleVars, idleVars, greetVars, wakeVars, now>>

\* one user message seen by the guard.  guard_log keeps the answer, the place
\* of a probe in its run (the probes since the last apology or other message),
\* and the streak and the lock the run began with
GuardTurn(text) ==
    /\ ops < MaxGuardTurns
    /\ \E r \in {maybe_block_request(on_user_turn(privacy, text), text, now)} :
          /\ privacy' = r.state
          /\ guard_log' =
                IF KindOf(text) = "probe"
                THEN [override |-> r.override, kind |-> "probe",
                      run |-> guard_log.run + 1,
                      base |-> IF guard_log.run = 0 THEN privacy.consecutive_attempts
                               ELSE guard_log.base,
                      locked |-> IF guard_log.run = 0 THEN privacy.hard_locked
                                 ELSE guard_log.locked]
                ELSE [override |-> r.override, kind |-> KindOf(text),
                      run |-> 0, base |-> 0, locked |-> FALSE]
    /\ last_op' = "guard"
    /\ ops' = ops + 1
    /\ PrivacyFrame

NextPrivacy == \E text \in GuardLines : GuardTurn(text)

SpecPrivacy == InitPrivacy /\ [][NextPrivacy]_vars

(***************************************************************************)
(* nova.py: the auto-greeting of main_async beside the StartupEngine       *)
(***************************************************************************)
MaxGreetInputs == 2

MaxGreetClock == 90

LoopGreeting == "hey Yuch, how are you?"

\* the lines the user types: nothing, a word, the word that ends the session
GreetInputs == {"", "hello", "exit"}

\* seconds the user lets pass at the prompt before the next thing happens
SilenceSteps == {30, 60}

\* get_auto_delay: the ends of the range random.uniform draws from, in seconds
get_auto_delay(state) ==
    IF state.primary \in {"sad", "hurt", "melancholy", "soft"} THEN {30, 60}
    ELSE IF state.fusion \in {"insecure", "clingy"} THEN {5, 10}
    ELSE IF state.primary \in {"warm", "happy", "curious"} THEN {5, 20}
    ELSE {10, 25}

\* the test with no delay to wait for
AutoGreetDue_undelayed(g, t) ==
    g.auto_greet_allowed /\ ~g.auto_greet_done

\* the two tests at the top of the loop (lines 182-183)
AutoGreetDue(g, t) ==
    /\ g.auto_greet_allowed /\ ~g.auto_greet_done
    /\ t - g.auto_greet_start >= g.auto_greet_delay

\* the EmotionalState load_emotional_state() handed to main_async
GreetStates ==
    {[create_default_state EXCEPT !.primary = pr, !.mood = pr, !.fusion = fu] :
        pr \in {"neutral", "sad", "warm"}, fu \in {None, "clingy"}}

InitGreet ==
    /\ IntentIdle /\ NeedsIdle /\ MoodIdle /\ FusionIdle /\ MemoryIdle
    /\ emotional_state \in GreetStates
    /\ emotion_map = <<>> /\ time_engine = TimeEngineInit(0) /\ spoken = None
    /\ now = 0 /\ last_op = "init" /\ ops = 0 /\ ExtIdle

GreetFrame == UNCHANGED <<intentVars, needsVars, moodVars, fusionVars, memoryVars,
                          emotional_state, emotion_map, initiativeVars, bridgeVars,
                          loopVars, handleVars, persistVars, libVars, cycleVars,
                          idleVars, guardVars, wakeVars, ops>>

\* lines 176-177: the delay is drawn and the clock read, once, before the loop
GreetSetup(d) ==
    /\ greet.pc = "start"
    /\ greet' = [greet EXCEPT !.auto_greet_delay = d, !.auto_greet_start = now,
                              !.pc = "check"]
    /\ last_op' = "greet_setup"
    /\ UNCHANGED <<startup, time_engine, spoken, now>>
    /\ GreetFrame

\* lines 181-189: the top of the loop, up to the await of the user's line
GreetCheck ==
    /\ greet.pc = "check"
    /\ IF AutoGreetDue(greet, now)
       THEN /\ greet' = [greet EXCEPT !.auto_greet_done = TRUE, !.pc = "await_input",
                                      !.checks = @ + 1]
            /\ time_engine' = note_nova_speak(time_engine, now)
            /\ spoken' = LoopGreeting
       ELSE /\ greet' = [greet EXCEPT !.pc = "await_input", !.checks = @ + 1]
            /\ UNCHANGED <<time_engine, spoken>>
    /\ last_op' = "greet_check"
    /\ UNCHANGED <<startup, now>>
    /\ GreetFrame

\* the user lets time pass at the prompt: main_async stays at its await
Silence(d) ==
    /\ greet.pc = "await_input"
    /\ now + d <= MaxGreetClock
    /\ now' = now + d
    /\ last_op' = "silence"
    /\ UNCHANGED <<greet, startup, time_engine, spoken>>
    /\ GreetFrame

\* lines 189-221: the line arrives and the body of the loop runs to its end
GreetInput(line) ==
    /\ greet.pc = "await_input"
    /\ greet.inputs < MaxGreetInputs
    /\ greet' = [greet EXCEPT !.auto_greet_allowed = FALSE, !.inputs = @ + 1,
                              !.pc = IF line = "exit" THEN "stopped" ELSE "check"]
    /\ startup' = IF greet.auto_greet_allowed THEN cancel(startup) ELSE startup
    /\ time_engine' = IF line = "exit" THEN time_engine
                      ELSE [note_user_activity(time_engine, now) EXCEPT
                               !.last_user_text = IF line = "" THEN @ ELSE line]
    /\ last_op' = "greet_input"
    /\ UNCHANGED <<spoken, now>>
    /\ GreetFrame

\* the event loop runs the StartupEngine's tasks while main_async awaits
GreetStartupStep ==
    /\ greet.pc = "await_input"
    /\ UNCHANGED greet
    /\ \/ RunStartupBegin
       \/ \E d \in _choose_delay(emotional_state) :
             now + d <= MaxGreetClock /\ TimerFires("_task", d)
       \/ \E d \in SecondDelays :
             now + d <= MaxGreetClock /\ TimerFires("_second_task", d)
       \/ \E task \in {"_task", "_second_task"} : TaskCancelled(task)
       \/ \E text \in FirstGreetings(emotional_state) : RunStartupEnd(text)
       \/ \E draw \in RandomDraws : SecondBubbleBegin(draw)
       \/ \E text \in SecondGreetings(emotional_state) : SecondBubbleEnd(text)

NextGreet ==
    \/ \E d \in get_auto_delay(emotional_state) : GreetSetup(d)
    \/ GreetCheck
    \/ \E d \in SilenceSteps : Silence(d)
    \/ \E line \in GreetInputs : GreetInput(line)
    \/ GreetStartupStep

SpecGreet == InitGreet /\ [][NextGreet]_vars

(***************************************************************************)
(* BrainLoop.process_turn, steps 2 and 3: the needs tick and the sleep     *)
(* step, one turn after another                                            *)
(***************************************************************************)
MaxWakeTurns == 5

MaxWakeClock == 60000

\* seconds between two turns: ten minutes, or a night
WakeClockSteps == {600, 21600}

\* what _estimate_intensity gave for the turn
TurnIntensities == {300, 900}

SleepHours == 6

\* check_sleep_need(needs_state, emotion_state, drive_state), lines 19-29
check_sleep_need(needs_state, emotion_state, drive_state) ==
    LET tired == needs_state.fatigue > 750
        overloaded == emotion_state.intensity > 750
    IN tired \/ overloaded

\* the nova_state the turns start from
WakeStates ==
    {s \in DailyStates : s.relationship.trust = 0 /\ s.needs.hunger = 0
                         /\ s.needs.thirst = 0}

InitWake ==
    /\ daily_cycle = DailyCycleStateNew
    /\ daily_state \in WakeStates
    /\ EmotionIdle /\ now = 0
    /\ IntentIdle /\ NeedsIdle /\ MoodIdle /\ FusionIdle /\ MemoryIdle
    /\ InitiativeIdle /\ BridgeIdle /\ LoopIdle /\ StartupIdle
    /\ HandleIdle /\ PersistIdle /\ LibIdle /\ IdleIdle /\ GuardIdle /\ GreetIdle
    /\ WakeIdle
    /\ last_op = "init" /\ ops = 0

WakeFrame == UNCHANGED <<intentVars, moodVars, fusionVars, emotionVars, memoryVars,
                         initiativeVars, bridgeVars, loopVars, startupVars,
                         handleVars, persistVars, libVars, idleVars, guardVars,
                         greetVars>>

\* process_turn, lines 141-159, dt seconds after the turn before: the needs
\* tick, then update_sleep when asleep and check_sleep_need when awake
SleepStep(dt, jit, inten) ==
    /\ ops < MaxWakeTurns
    /\ now + dt <= MaxWakeClock
    /\ now' = now + dt
    /\ ops' = ops + 1
    /\ \E needs_state \in {NeedsAccrue(needs, now + dt - last_update, jit)} :
          /\ needs' = needs_state
          /\ last_update' = now + dt
          /\ IF daily_cycle.is_asleep
             THEN IF now + dt - sleep_log.last_sleep_time >= SleepHours * 3600
                  THEN /\ \E r \in {wake(daily_cycle, daily_state)} :
                             /\ daily_cycle' = [r.cycle EXCEPT !.hours_slept =
                                   (now + dt - sleep_log.last_sleep_time) \div 3600]
                             /\ daily_state' = r.nova_state
                       /\ sleep_log' = [sleep_log EXCEPT
                                           !.outcome = "wake",
                                           !.woke_tired = sleep_log.tired,
                                           !.after_tired_wake = FALSE,
                                           !.fatigue_seen = needs_state.fatigue]
                       /\ last_op' = "wake_turn"
                  ELSE /\ daily_cycle' = [daily_cycle EXCEPT !.hours_slept =
                                   (now + dt - sleep_log.last_sleep_time) \div 3600]
                       /\ UNCHANGED daily_state
                       /\ sleep_log' = [sleep_log EXCEPT
                                           !.outcome = "processed",
                                           !.woke_tired = FALSE,
                                           !.after_tired_wake = FALSE,
                                           !.fatigue_seen = needs_state.fatigue]
                       /\ last_op' = "asleep_turn"
             ELSE IF check_sleep_need(needs_state, [intensity |-> inten], daily_state.drive)
                  THEN /\ \E r \in {sleep(daily_cycle, daily_state)} :
                             /\ daily_cycle' = r.cycle
                             /\ daily_state' = r.nova_state
                       /\ sleep_log' = [sleep_log EXCEPT
                                           !.last_sleep_time = now + dt,
                                           !.outcome = "sleep",
                                           !.tired = needs_state.fatigue > 750,
                                           !.woke_tired = FALSE,
                                           !.after_tired_wake = sleep_log.woke_tired,
                                           !.fatigue_seen = needs_state.fatigue]
                       /\ last_op' = "sleep_turn"
                  ELSE /\ UNCHANGED <<daily_cycle, daily_state>>
                       /\ sleep_log' = [sleep_log EXCEPT
                                           !.outcome = "processed",
                                           !.woke_tired = FALSE,
                                           !.after_tired_wake = sleep_log.woke_tired,
                                           !.fatigue_seen = needs_state.fatigue]
                       /\ last_op' = "awake_turn"
    /\ WakeFrame

NextWake == \E dt \in WakeClockSteps, jit \in Jitters, inten \in TurnIntensities :
               SleepStep(dt, jit, inten)

SpecWake == InitWake /\ [][NextWake]_vars

(***************************************************************************)
(* The memory library of BrainLoop: load inside try/except, then the       *)
(* operations on the collections and save                                  *)
(***************************************************************************)
MaxSaveOps == 4

MaxEntries == 2

\* json.dumps of a collection, as save writes it: the empty list or object,
\* the text of one entry, the text of more than one
json_dumps(name, value) ==
    IF value = <<>>
    THEN IF name \in {"system.json", "short_term.json"} THEN "{}" ELSE "[]"
    ELSE IF Len(value) = 1 THEN "saved" ELSE "saved, more"

\* save without its test of _loaded
save_unguarded(lib, files) ==
    [i \in 1..5 |-> <<json_dumps(LibFileNames[i], lib.collections[i])>>]

\* MemoryLibrary.save: the directory after the call
save(lib, files) ==
    IF ~lib._loaded THEN files
    ELSE [i \in 1..5 |-> <<json_dumps(LibFileNames[i], lib.collections[i])>>]

\* an entry as its constructor builds it, every field set
NewEntry(i) == [fields |-> "all", of |-> LibFileNames[i]]

\* add_episodic: self.episodic.append(mem)
add_episodic(lib) == [lib EXCEPT !.collections[1] = Append(@, NewEntry(1))]

\* remember_fact: the fact of an existing key is updated in place, a new key
\* adds an entry
remember_fact(lib, existing) ==
    IF existing /\ lib.collections[2] # <<>> THEN lib
    ELSE [lib EXCEPT !.collections[2] = Append(@, NewEntry(2))]

\* record_emotion_event: self.emotional.append(ev)
record_emotion_event(lib) == [lib EXCEPT !.collections[3] = Append(@, NewEntry(3))]

\* set_short_term: one key of working memory, set or set again
set_short_term(lib) == [lib EXCEPT !.collections[5] = <<NewEntry(5)>>]

\* run_decay: when the entries are old, weak and unused the episodic and
\* semantic ones are dropped and working memory is flushed; otherwise kept
run_decay(lib, aged) ==
    IF aged THEN [lib EXCEPT !.collections[1] = <<>>, !.collections[2] = <<>>,
                             !.collections[5] = <<>>]
    ELSE lib

\* the directory BrainLoop finds: the two object files absent
SaveFiles ==
    {f \in [1..5 -> Files] :
        /\ f[4] = <<>> /\ f[5] = <<>>
        /\ f[3] \in {<<>>, <<"saved, cut short">>}}

InitSave ==
    /\ lib_files \in SaveFiles
    /\ memory_lib = MemoryLibraryNew
    /\ lib_pc = "start"
    /\ EmotionIdle /\ now = 0
    /\ IntentIdle /\ NeedsIdle /\ MoodIdle /\ FusionIdle /\ MemoryIdle
    /\ InitiativeIdle /\ BridgeIdle /\ LoopIdle /\ StartupIdle
    /\ HandleIdle /\ PersistIdle /\ CycleIdle /\ IdleIdle /\ GuardIdle /\ GreetIdle
    /\ WakeIdle
    /\ last_op = "init" /\ ops = 0

\* BrainLoop.__init__, lines 92-97: what load raises is swallowed
LoadGuarded ==
    /\ lib_pc = "start"
    /\ ops < MaxSaveOps
    /\ \E r \in {load(memory_lib, lib_files)} :
          /\ memory_lib' = r
          /\ lib_pc' = IF r.raised # "" THEN "failed" ELSE "loaded"
    /\ last_op' = "load"
    /\ ops' = ops + 1
    /\ UNCHANGED lib_files
    /\ LibraryFrame

\* one of the operations on the collections, on a library in any state
LibraryEdit(op, flag) ==
    /\ ops < MaxSaveOps
    /\ \A i \in 1..5 : Len(memory_lib.collections[i]) <= MaxEntries
    /\ memory_lib' = CASE op = "add_episodic" -> add_episodic(memory_lib)
                       [] op = "remember_fact" -> remember_fact(memory_lib, flag)
                       [] op = "record_emotion_event" -> record_emotion_event(memory_lib)
                       [] op = "set_short_term" -> set_short_term(memory_lib)
                       [] op = "run_decay" -> run_decay(memory_lib, flag)
    /\ last_op' = op
    /\ ops' = ops + 1
    /\ UNCHANGED <<lib_files, lib_pc>>
    /\ LibraryFrame

\* memory_library.save()
Save ==
    /\ ops < MaxSaveOps
    /\ lib_files' = save(memory_lib, lib_files)
    /\ last_op' = "save"
    /\ ops' = ops + 1
    /\ UNCHANGED <<memory_lib, lib_pc>>
    /\ LibraryFrame

LibraryOps == {"add_episodic", "remember_fact", "record_emotion_event",
               "set_short_term", "run_decay"}

NextSave ==
    \/ LoadGuarded
    \/ \E op \in LibraryOps, flag \in BOOLEAN : LibraryEdit(op, flag)
    \/ Save

SpecSave == InitSave /\ [][NextSave]_vars

(***************************************************************************)
(* Properties of the turn (SpecIntent)                                     *)
(***************************************************************************)
\* C1: the Intent handed to the text-generation call, after the initiative
\* step and merge_into_intent, has openness, vulnerability, playfulness and
\* hesitation in [0, 1], whatever the context and the thoughts generated
C1_SentTraitsInUnit ==
    turn_pc = "done" =>
        /\ InUnit(sent.openness) /\ InUnit(sent.vulnerability)
        /\ InUnit(sent.playfulness) /\ InUnit(sent.hesitation)

\* a turn whose built Intent left build_intent with vulnerability above 1 and
\* whose thoughts were not empty, handed on with vulnerability 1
C1_Witness ==
    /\ turn_pc = "done"
    /\ built.vulnerability > One
    /\ generate(ctx) # <<>>
    /\ sent.vulnerability = One

\* C2: the Intent build_intent returns has vulnerability, playfulness and
\* hesitation in [0, 1], the two override passes included
C2_BuiltTraitsInUnit ==
    turn_pc = "done" =>
        /\ InUnit(built.vulnerability) /\ InUnit(built.playfulness)
        /\ InUnit(built.hesitation)

(***************************************************************************)
(* Properties of the NeedsEngine (SpecNeeds)                               *)
(***************************************************************************)
\* C3: after any sequence of NeedsEngine operations (update with a clock that
\* never runs backwards, eat, drink, rest, toilet, receive_affection with an
\* amount in [0, 1]) the five needs are each in [0, 1]
C3_NeedsInUnit ==
    /\ InUnit(needs.hunger) /\ InUnit(needs.thirst) /\ InUnit(needs.fatigue)
    /\ InUnit(needs.bladder) /\ InUnit(needs.affection)

\* an update that stopped thirst at 1 and a receive_affection that stopped
\* affection at 0 have both happened
C3_Witness ==
    /\ last_op = "receive_affection"
    /\ needs.thirst = One /\ needs.affection = 0 /\ needs.hunger < One

\* C4 (as amended): fatigue never decreases in a step other than rest(), so it
\* is non-decreasing from update() to update() while no rest() intervenes; a
\* rest() leaves fatigue at max(0, fatigue before - 0.6)
C4_FatigueSteps ==
    [][/\ last_op' # "rest" => needs'.fatigue >= needs.fatigue
       /\ last_op' = "update" => needs'.fatigue >= needs.fatigue + Mul(now - last_update, 4, 10)
                                 \/ needs'.fatigue = One
       /\ last_op' = "rest" => needs'.fatigue = Max2(0, needs.fatigue - RestAmount)]_vars

\* fatigue grew over two updates and a rest() then took the whole 0.6 off it
C4_Witness ==
    /\ last_op = "rest"
    /\ needs.fatigue > 0 /\ needs.fatigue + RestAmount <= One

\* C4 (as stated): immediately after rest() fatigue is lower than before by
\* the fixed rest amount 0.6
C4_RestDropsFixedAmount ==
    [][last_op' = "rest" => needs'.fatigue = needs.fatigue - RestAmount]_vars

(***************************************************************************)
(* Properties of calculate_mood (SpecMood)                                 *)
(***************************************************************************)
\* C5: calculate_mood returns e when e is the only emotion occurring at least
\* twice in the history, "neutral" when the history is empty or no emotion
\* occurs twice; an emotion occurring once is never returned as the mood
\* ("neutral" being returned as the fallback label, not as that emotion)
C5_MoodIsRepeatedEmotion ==
    last_op = "calculate_mood" =>
        /\ \A e \in Range(mood_in) :
              (/\ Count(mood_in, e) >= 2
               /\ \A f \in Range(mood_in) \ {e} : Count(mood_in, f) < 2)
              => mood_out = e
        /\ (\A e \in Range(mood_in) : Count(mood_in, e) < 2) => mood_out = "neutral"
        /\ \A e \in Range(mood_in) \ {"neutral"} : Count(mood_in, e) = 1 => mood_out # e

\* a history in which one emotion occurs twice and another once
C5_Witness ==
    /\ last_op = "calculate_mood"
    /\ mood_in = <<"sad", "happy", "sad">>
    /\ mood_out = "sad"

(***************************************************************************)
(* Properties of compute_fusion (SpecFusion)                               *)
(***************************************************************************)
\* C6: compute_fusion returns the rule label of (primary, m) for the first
\* spike m, in list order, that has a rule; failing that for the first
\* secondary shade that has one; and null when nothing matches, so that a
\* matching spike wins over any matching shade
C6_FirstMatchSpikesFirst ==
    last_op = "compute_fusion" =>
        LET p == _normalize(fusion_in.primary)
            HasRule(m) == /\ m # None /\ m # "" /\ _normalize(m) # None
                          /\ <<p, _normalize(m)>> \in DOMAIN FUSION_RULES
            FirstOf(list, i) == /\ HasRule(list[i])
                                /\ \A j \in 1..(i - 1) : ~HasRule(list[j])
            sp == fusion_in.spikes
            se == fusion_in.secondary
        IN IF p = None THEN fusion_out = None
           ELSE IF \E i \in 1..Len(sp) : HasRule(sp[i])
           THEN \E i \in 1..Len(sp) :
                   FirstOf(sp, i) /\ fusion_out = FUSION_RULES[<<p, _normalize(sp[i])>>]
           ELSE IF \E i \in 1..Len(se) : HasRule(se[i])
           THEN \E i \in 1..Len(se) :
                   FirstOf(se, i) /\ fusion_out = FUSION_RULES[<<p, _normalize(se[i])>>]
           ELSE fusion_out = None

\* a call in which a shade and a later spike both have a rule, with different
\* labels, and the spike's label is returned
C6_Witness ==
    /\ last_op = "compute_fusion"
    /\ fusion_in = [primary |-> "SAD", secondary |-> <<"Lonely">>,
                    spikes |-> <<"   ", "JEALOUS">>]
    /\ fusion_out = "bitter"

(***************************************************************************)
(* Properties of the emotion engine and the ticker (SpecEmotion)           *)
(***************************************************************************)
\* C7: in every reachable state, under any interleaving of turn updates and
\* ticks, EmotionalState.fusion is null or a label the rule table has as a value
C7_FusionLegal == emotional_state.fusion \in FusionLabels \cup {None}

\* asleep, after turns and ticks, with a fusion label the drift brought about
C7_Witness ==
    /\ time_engine.state = "ASLEEP"
    /\ emotional_state.fusion = "mischievous"

\* C8 (as amended): after every completed turn update the stored fusion label
\* equals compute_fusion of the state's primary and secondary with no spikes
C8_TurnFusionDerived ==
    last_op = "turn" =>
        emotional_state.fusion =
            compute_fusion(emotional_state.primary, emotional_state.secondary, <<>>)

\* a turn update that left a fusion label
C8_Witness ==
    /\ last_op = "turn"
    /\ emotional_state.fusion = "frustrated"

\* C8 (as stated): after every completed turn update and every completed tick
\* the stored fusion label equals compute_fusion of primary and secondary
C8_FusionAlwaysDerived ==
    last_op \in {"turn", "tick"} =>
        emotional_state.fusion =
            compute_fusion(emotional_state.primary, emotional_state.secondary, <<>>)

(***************************************************************************)
(* Properties of the consolidation engine (SpecMemory)                     *)
(***************************************************************************)
\* C9: over a consolidation pass (the per-turn decay of consolidate or the
\* sleep-cycle pruning) no episodic entry that has a strength is left with a
\* greater one; entries are followed by their identity (origin)
C9_StrengthNonIncreasing ==
    [][last_op' \in {"consolidate", "prune"} =>
         \A i \in 1..Len(nova_state.episodic_memory) :
            \A j \in 1..Len(nova_state'.episodic_memory) :
               (/\ nova_state'.episodic_memory[j].origin = nova_state.episodic_memory[i].origin
                /\ "overall_strength" \in DOMAIN nova_state.episodic_memory[i])
               => nova_state'.episodic_memory[j].overall_strength
                     <= nova_state.episodic_memory[i].overall_strength]_vars

\* an entry promoted by one pass has been through two more passes, the last
\* of them the pruning pass
C9_Witness ==
    /\ last_op = "prune"
    /\ \E i \in 1..Len(nova_state.episodic_memory) :
          /\ nova_state.episodic_memory[i].origin[1] >= 1
          /\ nova_state.episodic_memory[i].turns_ago >= 3

\* C10: consolidate promotes a short-term record to episodic memory exactly
\* when its score is strictly above 0.35
C10_PromotesAboveThreshold ==
    last_op = "consolidate" =>
        \A i \in 1..Len(last_scored) :
           (last_scored[i] > 3500)
           <=> \E j \in 1..Len(nova_state.episodic_memory) :
                  nova_state.episodic_memory[j].origin = <<passes, i>>

\* a pass over two records, one scoring exactly 0.35 and not promoted, the
\* other scoring one unit more and promoted
C10_Witness ==
    /\ last_op = "consolidate"
    /\ last_scored = <<3500, 3501>>
    /\ \A j \in 1..Len(nova_state.episodic_memory) :
          nova_state.episodic_memory[j].origin # <<passes, 1>>
    /\ \E j \in 1..Len(nova_state.episodic_memory) :
          nova_state.episodic_memory[j].origin = <<passes, 2>>

\* C11: an entry promoted to episodic memory stays there over every step of
\* the turn pipeline, except that a pass (the per-turn decay or the sleep-cycle
\* pruning) may drop it when its strength has fallen to the floor of that pass
C11_PromotedKeptUntilPruned ==
    [][\A i \in 1..Len(nova_state.episodic_memory) :
          LET e == nova_state.episodic_memory[i]
          IN e.origin[1] >= 1 =>
                \/ \E j \in 1..Len(nova_state'.episodic_memory) :
                      nova_state'.episodic_memory[j].origin = e.origin
                \/ last_op' = "consolidate" /\ ~Survives(DecayEntry(e))
                \/ last_op' = "prune" /\ ~PruneSurvives(PruneEntry(e))]_vars

(***************************************************************************)
(* Properties of the initiative engine (SpecInitiative)                    *)
(***************************************************************************)
\* C12: evaluate returns no action whenever the last user message contains
\* "?" or is_direct_question is true, whatever the cooldown, the needs, the
\* trust, the emotion and the random draw
C12_NoInitiativeOnQuestion ==
    (last_op = "evaluate" /\ (ctx.last_user_message.qmark \/ ctx.is_direct_question))
    => initiative = NoInitiative

\* a message with "?" that is no direct question, no cooldown, and a chance
\* of 0.55: without the question the draws 0.0 and 0.4 would have acted
C12_Witness ==
    /\ last_op = "evaluate"
    /\ ctx.last_user_message.qmark /\ ~ctx.is_direct_question
    /\ cooldown = 0
    /\ ctx.relationship.trust >= 250
    /\ InitiativeChance(ctx) = 550
    /\ initiative = NoInitiative

\* C13: an initiative sets a cooldown of 3 to 8, and every evaluate call made
\* while the cooldown is positive returns no action and lowers the cooldown
\* by exactly one
C13_CooldownCountsEveryCall ==
    [][last_op' = "evaluate" =>
          /\ (initiative' # NoInitiative => cooldown' \in 3..8)
          /\ (cooldown > 0 => initiative' = NoInitiative /\ cooldown' = cooldown - 1)]_vars

(***************************************************************************)
(* Properties of the bridges (SpecBridge)                                  *)
(***************************************************************************)
\* C14: whatever the external text-generation call did, the bridge's reply
\* function raises nothing and returns a non-empty reply
C14_ReplyNeverEmptyNeverRaises ==
    last_op \in {"generate_reply", "generate_llm_reply"} =>
        ~reply.raised /\ reply.text # <<>>

(***************************************************************************)
(* Properties of the event loop (SpecLoop)                                 *)
(***************************************************************************)
\* C15: a tick and the handling of a user turn never interleave: while
\* main_async is between the start and the end of handling a line the ticker
\* is not inside _tick, and the other way round
C15_TickAndTurnNeverInterleave ==
    ~(main_pc \in {"handle", "turn"} /\ tick_pc = "tick")

\* the sleep of the ticker ended while a turn was being handled: the tick is
\* due and has to wait
C15_Witness == main_pc = "turn" /\ tick_pc = "ready" /\ current = "main"

\* C16: the turn pipeline and the ticker work on one and the same
\* EmotionalState: what the turn wrote is what the tick reads, and the other
\* way round
C16_OneEmotionalState == bridge_state = emotional_state

\* C17 (SpecStartup): once cancel() has been called neither the first
\* greeting nor the second bubble is emitted, whatever the two tasks were
\* doing, and a further cancel() changes nothing but the tasks already told
\* to stop
C17_CancelIsFinalAndIdempotent ==
    [][startup.cancel_calls > 0 =>
          /\ startup'.first_sent = startup.first_sent
          /\ startup'.second_sent = startup.second_sent
          /\ spoken' = spoken
          /\ (last_op' = "cancel" =>
                startup' = [startup EXCEPT !.cancel_calls = @ + 1])]_vars

\* cancel() came while the second bubble's sleep was pending, and was called
\* again after the task had been cancelled
C17_Witness ==
    /\ startup.cancel_calls >= 2
    /\ startup.first_sent /\ ~startup.second_sent
    /\ startup._second_task = "cancelled"
    /\ last_op = "cancel"

\* C18: once TimeEngine.stop() has been called no further tick is executed
C18_NoTickAfterStop == [][~time_engine._running => last_op' # "tick"]_vars

\* C19: a user turn detected as ambiguous input (a "we" that resolve_we leaves
\* unresolved, or a privacy probe) gets exactly one reply, the clarifying
\* question or a boundary line of the privacy guard; the turn makes no
\* text-generation call and takes nothing into memory (short-term buffer,
\* memory library, episodic staging and the tracked people stay as they were)
C19_AmbiguousTurnShortCircuits ==
    [][last_op' = "user_text" =>
        LET clean == select_mode(turn_out'.text).clean
            unresolved == /\ LineFacts[clean].we
                          /\ \A ep \in BOOLEAN : resolve_we(bridge_mem, clean, now', ep) = None
        IN (unresolved \/ _looks_like_privacy_probe(clean)) =>
             /\ Len(turn_out'.replies) = 1
             /\ turn_out'.replies[1] \in {WeQuestion, SoftLine, FirmLine, WarningLine, Ellipsis}
             /\ turn_out'.llm_calls = 0
             /\ turn_out'.intakes = 0
             /\ bridge_mem'.memory_buffer = bridge_mem.memory_buffer
             /\ bridge_mem'.library = bridge_mem.library
             /\ bridge_mem'._pending_episodic = bridge_mem._pending_episodic
             /\ bridge_mem'.last_people = bridge_mem.last_people]_vars

\* a second privacy probe in a row, after a turn that was remembered, is
\* answered with the firmer boundary line alone
C19_Witness ==
    /\ last_op = "user_text"
    /\ _looks_like_privacy_probe(select_mode(turn_out.text).clean)
    /\ turn_out.replies = <<FirmLine>>
    /\ Len(bridge_mem.memory_buffer) >= 1
    /\ bridge_mem.library # <<>>


\* C20: saving an EmotionalState and loading it back gives a state equal to
\* the saved one on every attribute it carries: baseline, mood, primary,
\* secondary, fusion, history, the two timestamps, and intensity and stability
C20_RoundTripEveryField ==
    [][(last_op = "save" /\ last_op' = "load") => loaded' = <<live>>]_vars

\* the eight declared fields do come back as they were saved
DeclaredFieldsRoundTrip ==
    [][(last_op = "save" /\ last_op' = "load") =>
          \A i \in 1..Len(DeclaredFields) :
             loaded'[1][DeclaredFields[i]] = live[DeclaredFields[i]]]_vars

\* C21: when the reinforcement map holds, for the stimulus heard, a
\* reinforcement score at or below -2, update_emotional_state short-circuits:
\* the state gets the avoidance emotion (primary and mood "afraid", secondary
\* alert and cautious) and the recall-and-reinforce step does not run, so the
\* map is left as it was
C21_FearShortCircuits ==
    [][(last_op' = "hear"
        /\ time_engine'.last_user_text \in DOMAIN emotion_map
        /\ emotion_map[time_engine'.last_user_text].reinforcement <= -2) =>
          /\ emotional_state'.primary = "afraid"
          /\ emotional_state'.mood = "afraid"
          /\ emotional_state'.secondary = <<"alert", "cautious">>
          /\ emotion_map' = emotion_map]_vars

\* the part that does hold: such a stimulus is answered with primary "afraid",
\* through the emotion remembered for it
FearRecalledAsAfraid ==
    [][(last_op' = "hear"
        /\ time_engine'.last_user_text \in DOMAIN emotion_map
        /\ emotion_map[time_engine'.last_user_text].reinforcement <= -2) =>
          emotional_state'.primary = "afraid"]_vars

\* C22 as claimed: a stimulus that is not in the reinforcement map and matches
\* no keyword gets "curious" or "neutral" as primary emotion, whatever the
\* current primary emotion is
C22_FallbackWhateverPrimary ==
    [][(last_op' = "turn"
        /\ time_engine'.last_user_text \notin DOMAIN emotion_map
        /\ KeywordHits[time_engine'.last_user_text] = NoHits) =>
          emotional_state'.primary \in {"curious", "neutral"}]_vars

\* C22 amended: for such a stimulus the continuity bonus decides when the
\* current primary emotion is one of the keyword table's emotions, and the
\* primary emotion stays what it was; the choice between "curious" and
\* "neutral" is made only when the current primary emotion is none of them
C22_FallbackOnTotalZero ==
    [][(last_op' = "turn"
        /\ time_engine'.last_user_text \notin DOMAIN emotion_map
        /\ KeywordHits[time_engine'.last_user_text] = NoHits) =>
          IF emotional_state.primary \in EmotionKeys
          THEN emotional_state'.primary = emotional_state.primary
          ELSE emotional_state'.primary \in {"curious", "neutral"}]_vars

\* "brb" heard for the first time after the ticker moved the primary emotion
\* off "sad": the turn before pushed "sad", this one a fallback emotion
C22_Witness ==
    /\ last_op = "turn"
    /\ time_engine.last_user_text = "brb"
    /\ "brb" \in DOMAIN emotion_map
    /\ emotion_map["brb"].count = 1
    /\ Len(emotional_state.history) = 2
    /\ emotional_state.history[1] = "sad"
    /\ emotional_state.history[2] \in {"curious", "neutral"}

\* the context with a primary emotion that is neither sad nor hurt
Unhurt(cx) == [cx EXCEPT !.emotion.primary = "calm"]

\* what the shaping passes of build_intent add to the vulnerability afterwards
ShapingBonus(cx) ==
    (IF cx.nsfw_readiness > 600 THEN 100 ELSE 0) + (IF cx.nsfw_readiness > 500 THEN 50 ELSE 0)

\* the vulnerability of a sad, low-trust context carries the penalty: it is
\* the unpenalised value less 0.25, floored at 0 (or the unpenalised value
\* was cut at 1.0), before the shaping passes add to it
PenalisedVulnerability ==
    LET o == _calc_openness(ctx)
        v == _calc_vulnerability(ctx, o)
        u == _calc_vulnerability(Unhurt(ctx), o)
    IN /\ built.vulnerability = v + ShapingBonus(ctx)
       /\ v <= u
       /\ v = Max2(0, u - 250) \/ (u = One /\ v >= One - 250)

\* C23 as claimed: for every context with primary "sad" and trust below 0.4,
\* build_intent yields tone_style "soft" and a vulnerability reduced by the
\* low-trust penalty, whatever mood, fusion, attachment, maturity, energy and
\* playfulness are
C23_SadLowTrustAlwaysSoft ==
    (turn_pc = "done" /\ ctx.emotion.primary = "sad" /\ ctx.relationship.trust < 400) =>
       /\ built.tone_style = "soft"
       /\ PenalisedVulnerability

\* C23 amended: such a context gets the penalised vulnerability, and the tone
\* "soft" unless a later rule of _decide_tone_style replaces it: "gentle" for
\* a warm, soft or affectionate mood with attachment above 0.4, and "light"
\* for a playfulness above 0.6
C23_SadLowTrustSoftUnlessOverridden ==
    (turn_pc = "done" /\ ctx.emotion.primary = "sad" /\ ctx.relationship.trust < 400) =>
       /\ built.tone_style =
             IF _calc_playfulness(ctx) > 600 THEN "light"
             ELSE IF /\ ctx.mood.label \in {"warm", "soft", "affectionate"}
                     /\ ctx.relationship.attachment > 400
             THEN "gentle"
             ELSE "soft"
       /\ PenalisedVulnerability

\* a sad, low-trust turn in a warm mood: the tone is "gentle", and the
\* vulnerability is 0.25 below what it would be without the penalty
C23_Witness ==
    /\ turn_pc = "done" /\ ctx.emotion.primary = "sad" /\ ctx.relationship.trust < 400
    /\ built.tone_style = "gentle"
    /\ built.vulnerability > ShapingBonus(ctx)
    /\ _calc_vulnerability(Unhurt(ctx), _calc_openness(ctx)) < One

\* C24: the speaking_mode of the Intent handed to the text-generation call is
\* one of answer, answer_and_ask, reflective, light
C24_SpeakingModeIsOneOfFour ==
    turn_pc = "done" =>
       sent.speaking_mode \in {"answer", "answer_and_ask", "reflective", "light"}

\* C24 (amended): the speaking_mode handed to generation is one of the four
\* tags or "soft", which the shaping pass of build_intent writes over "answer"
\* when nsfw_ready; the initiative step never writes "question", because the
\* priority evaluate returns is at most 0.55
C24_SpeakingModeIsOneOfFive ==
    turn_pc = "done" =>
       sent.speaking_mode \in {"answer", "answer_and_ask", "reflective", "light",
                               "soft"}

\* a turn whose intent left the shaping pass with speaking_mode "soft"
C24_Witness ==
    /\ turn_pc = "done"
    /\ sent.speaking_mode = "soft"
    /\ sent.nsfw_ready

\* C25: MemoryLibrary.load never raises on a missing or corrupt file: it falls
\* back to empty collections and start-up continues
C25_LoadNeverRaises ==
    /\ lib_pc # "raised"
    /\ (lib_pc \in {"loaded", "running"}) =>
          \A i \in 1..3 :
             (lib_files[i] = <<>> \/ lib_files[i] \in {<<"saved, cut short">>, <<"[{}]">>})
                => memory_lib.collections[i] = <<>>

\* what load does do: a missing or zero-length file gives the empty collection,
\* and load returns when no file is cut short or lacks a field
MissingFilesLoadEmpty ==
    /\ (lib_pc \in {"loaded", "running"}) =>
          \A i \in 1..5 :
             (lib_files[i] = <<>> \/ lib_files[i] = <<"">>) => memory_lib.collections[i] = <<>>
    /\ (lib_pc = "raised") =>
          \E i \in 1..5 : lib_files[i] \in {<<"saved, cut short">>, <<"[{}]">>}

\* C26: the pruning pass that ends a sleep cycle is lighter than the per-turn
\* decay pass: on every entry it subtracts no more strength than the per-turn
\* pass would, and an entry the per-turn pass would keep is kept
C26_PruneLighterThanDecay ==
    [][(last_op' = "prune") =>
          \A i \in 1..Len(nova_state.episodic_memory) :
             LET mem == nova_state.episodic_memory[i]
             IN Decayable(mem) =>
                   /\ mem.overall_strength - PruneEntry(mem).overall_strength
                         <= mem.overall_strength - DecayEntry(mem).overall_strength
                   /\ Survives(DecayEntry(mem)) =>
                         \E j \in 1..Len(nova_state'.episodic_memory) :
                            nova_state'.episodic_memory[j] = PruneEntry(mem)]_vars

\* the two passes the other way round: the sleep-cycle pass subtracts at least
\* what the per-turn pass would, and what it keeps the per-turn pass would keep
PruneHeavierThanDecay ==
    [][(last_op' = "prune") =>
          \A i \in 1..Len(nova_state.episodic_memory) :
             LET mem == nova_state.episodic_memory[i]
             IN Decayable(mem) =>
                   /\ PruneEntry(mem).overall_strength < DecayEntry(mem).overall_strength
                   /\ PruneSurvives(PruneEntry(mem)) => Survives(DecayEntry(mem))]_vars

\* C28: when the affection-seeking and the positive-mood topics do not apply
\* and the mood is a negative one, the initiative takes the negative-mood topic
\* ahead of the fatigue topic and the generic greeting
C28_NegativeMoodAheadOfFatigue ==
    (/\ last_op = "evaluate"
     /\ initiative # NoInitiative
     /\ ctx.needs.affection <= 600
     /\ ctx.mood.label \in NegativeMoods)
       => initiative.content = "Mmm... it's been a weird day."

\* with the valence the turn computes, a value in [0, 1], the test
\* valence < -0.3 is never met: a negative mood gets the fatigue topic or the
\* generic greeting, and every other mood the positive-mood topic
NegativeMoodTopicNeverChosen ==
    (last_op = "evaluate" /\ initiative # NoInitiative)
       => /\ initiative.content # "Mmm... it's been a weird day."
          /\ (ctx.needs.affection <= 600 /\ ctx.mood.label \in NegativeMoods)
                => initiative.content = IF ctx.needs.fatigue > 700
                                        THEN "*yawn* ...how are you?" ELSE "Hey..."

\* C27: after any sequence of sleep and wake calls, hunger, thirst, trust and
\* the emotional stability are within [0, 1]
C27_CycleKeepsUnitRange ==
    /\ InUnit(daily_state.needs.hunger)
    /\ InUnit(daily_state.needs.thirst)
    /\ InUnit(daily_state.relationship.trust)
    /\ InUnit(daily_state.emotion.stability)

\* C29: once ASLEEP the ticker stays ASLEEP, says nothing and leaves the
\* EmotionalState as it is on every tick, until user activity is noted after it
\* fell asleep (note_user_activity itself sets the state to AWAKE)
C29_AsleepUntilUserActivity ==
    [][(time_engine.state = "ASLEEP" /\ last_op' = "tick")
          => /\ time_engine'.state = "ASLEEP"
             /\ spoken' = None
             /\ emotional_state' = emotional_state]_vars

\* the same for a ticker that no user activity has reached since it started,
\* or since it last woke up: _wake_requested is not set
AsleepWhileNoWakeRequested ==
    [][(time_engine.state = "ASLEEP" /\ ~time_engine._wake_requested /\ last_op' = "tick")
          => /\ time_engine'.state = "ASLEEP"
             /\ spoken' = None
             /\ emotional_state' = emotional_state]_vars

\* the ticker fell asleep with the wake request of an earlier user turn still set
StaleWakeRequest ==
    time_engine.state = "ASLEEP" /\ time_engine._wake_requested

\* C30: within one idle period the ticker fires each idle stage at most once
\* and in order: the ping, the lie-down, the fall-asleep
C30_StagesOnceInOrder ==
    \E n \in 0..3 : stages = SubSeq(<<"ping", "lie_down", "fall_asleep">>, 1, n)

\* what the flags do ensure: the ping and the lie-down fire once each and come
\* first; the fall-asleep can fire a second time, after the ticker woke up on
\* the wake request of the user line that began the idle period
PingAndLieDownOnceInOrder ==
    \E n \in 0..4 :
       stages = SubSeq(<<"ping", "lie_down", "fall_asleep", "fall_asleep">>, 1, n)

\* C31: in a run of consecutive probes, with no apology and no other message
\* in between, the 1st probe gets the soft line, the 2nd the firm line, the
\* 3rd the warning line, the 4th and every later one silence with hard_locked
C31_EscalatesInOrder ==
    guard_log.kind = "probe" =>
       /\ guard_log.override = LineAt(guard_log.run)
       /\ guard_log.run >= 4 => privacy.hard_locked

\* C31 (amended): the escalation counts from the streak the run began with,
\* since a message about something else takes only one off the streak: the
\* n-th probe of a run that began at streak b gets the line of level b + n,
\* and silence if the run began under the lock
C31_EscalatesFromStreak ==
    guard_log.kind = "probe" =>
       /\ guard_log.override = IF guard_log.locked THEN Ellipsis
                               ELSE LineAt(guard_log.base + guard_log.run)
       /\ (guard_log.locked \/ guard_log.base + guard_log.run >= 4) => privacy.hard_locked

\* the first probe of a run that began at streak 2 gets the warning line
C31_Witness ==
    /\ guard_log.kind = "probe" /\ guard_log.run = 1
    /\ guard_log.base = 2 /\ ~guard_log.locked
    /\ guard_log.override = WarningLine

C33_FirmWhenSessionWide ==
    (/\ guard_log.kind = "probe" /\ guard_log.run = 1
     /\ guard_log.base = 0 /\ ~guard_log.locked
     /\ privacy.total_attempts >= 6)
       => guard_log.override = FirmLine

\* the first probe of a run from streak 0 gets the soft line whatever
\* total_attempts is
SoftWhateverSessionTotal ==
    (/\ guard_log.kind = "probe" /\ guard_log.run = 1
     /\ guard_log.base = 0 /\ ~guard_log.locked)
       => guard_log.override = SoftLine

\* C35: a turn short-circuited as ambiguous input (the "we" clarification or
\* a boundary line of the privacy guard) leaves the EmotionalState and the
\* stimulus reinforcement map as they were before the turn
C35_AmbiguousTurnLeavesEmotion ==
    [][last_op' = "user_text" =>
        LET clean == select_mode(turn_out'.text).clean
            unresolved == /\ LineFacts[clean].we
                          /\ \A ep \in BOOLEAN : resolve_we(bridge_mem, clean, now', ep) = None
        IN (unresolved \/ _looks_like_privacy_probe(clean)) =>
             /\ bridge_state' = bridge_state
             /\ emotion_map' = emotion_map]_vars

\* the half that holds: the "we" clarification returns before the emotion
\* update; the boundary reply of the guard comes after it
WeClarificationLeavesEmotion ==
    [][last_op' = "user_text" =>
        LET clean == select_mode(turn_out'.text).clean
            unresolved == /\ LineFacts[clean].we
                          /\ \A ep \in BOOLEAN : resolve_we(bridge_mem, clean, now', ep) = None
        IN unresolved =>
             /\ bridge_state' = bridge_state
             /\ emotion_map' = emotion_map]_vars

\* C36: once the reinforcement map holds an emotion for a stimulus, every
\* later update_emotional_state call with that stimulus sets primary to the
\* stored emotion, whatever the current primary and however often the stimulus
\* recurs, and the call leaves the emotion stored for every stimulus as it is
C36_StoredEmotionRecalled ==
    [][(last_op' = "hear" /\ time_engine'.last_user_text \in DOMAIN emotion_map) =>
          LET stimulus == time_engine'.last_user_text
          IN /\ emotional_state'.primary = emotion_map[stimulus].emotion
             /\ \A s \in DOMAIN emotion_map :
                   emotion_map'[s].emotion = emotion_map[s].emotion]_vars

\* a stimulus heard for at least the third time, its reinforcement at 2 or
\* more, recalled with its stored emotion over a different primary
C36_Witness ==
    /\ last_op = "hear"
    /\ time_engine.last_user_text \in DOMAIN emotion_map
    /\ emotion_map[time_engine.last_user_text].count >= 3
    /\ emotion_map[time_engine.last_user_text].reinforcement >= 2
    /\ emotional_state.primary = emotion_map[time_engine.last_user_text].emotion
    /\ Len(emotional_state.history) >= 2
    /\ emotional_state.history[Len(emotional_state.history) - 1] # emotional_state.primary

\* C37: every initiative evaluate returns has priority at most 0.55, so in
\* process_turn an initiative is only ever injected as a memory hint: it never
\* replaces the content goal, nor sets speaking_mode to "question"
C37_InitiativeOnlyEverAHint ==
    turn_pc = "done" =>
        /\ \A draw \in RandomDraws, cd \in CooldownDraws, before \in 0..8 :
              evaluate(ctx, ctx, before, draw, cd).initiative.priority <= 550
        /\ \E draw \in RandomDraws, cd \in CooldownDraws, before \in 0..8 :
              LET ini == evaluate(ctx, ctx, before, draw, cd).initiative
                  applied == ApplyInitiative(ctx, built, ini)
              IN /\ sent = merge_into_intent(applied, generate(ctx))
                 /\ applied.content_goal = built.content_goal
                 /\ applied.speaking_mode = built.speaking_mode
                 /\ (ini # NoInitiative /\ ~ctx.is_direct_question) =>
                       applied.memory_hint = ini.content /\ ~applied.ask_back
        /\ sent.content_goal = built.content_goal
        /\ sent.speaking_mode = built.speaking_mode
        /\ sent.speaking_mode # "question"

\* a turn whose initiative had the highest priority there is, 0.55, and went
\* into the memory hint of the Intent handed on
C37_Witness ==
    /\ turn_pc = "done"
    /\ InitiativeChance(ctx) = 550
    /\ ~ctx.is_direct_question
    /\ sent.memory_hint = _choose_topic(ctx)
    /\ sent.memory_hint # built.memory_hint
    /\ sent.content_goal = built.content_goal

\* C38: the Intent build_intent returns does not depend on allow_nsfw: two
\* contexts that differ only in that setting get equal Intents, and nsfw_ready
\* is true exactly when nsfw_readiness is above 0.5
C38_IntentIgnoresAllowNsfw ==
    turn_pc = "done" =>
       /\ \A setting \in BOOLEAN :
             build_intent([ctx EXCEPT !.allow_nsfw = setting]) = built
       /\ built.nsfw_ready <=> ctx.nsfw_readiness > 500

\* a context with allow_nsfw off and a readiness above 0.5: the Intent built
\* for it has nsfw_ready set, as the one for allow_nsfw on has
C38_Witness ==
    /\ turn_pc = "done"
    /\ ~ctx.allow_nsfw
    /\ ctx.nsfw_readiness > 500
    /\ built.nsfw_ready
    /\ build_intent([ctx EXCEPT !.allow_nsfw = TRUE]) = built

C34_AwakeTurnAfterTiredSleep ==
    sleep_log.after_tired_wake =>
       /\ sleep_log.outcome = "processed"
       /\ sleep_log.fatigue_seen <= 750

\* what the turn after such a wake does instead: wake wrote 0.1 into
\* nova_state.needs, the check reads the NeedsEngine's own fatigue, which is
\* still above 0.75, and the turn ends in sleep again
StraightBackToSleep ==
    sleep_log.after_tired_wake =>
       /\ sleep_log.outcome = "sleep"
       /\ sleep_log.fatigue_seen > 750
       /\ needs.fatigue > 750
       /\ daily_state.needs.fatigue = 100

\* a turn straight after a wake from a sleep that fatigue had triggered
AfterTiredWakeReached == sleep_log.after_tired_wake

\* C40: as long as no load() has run to completion (it was never called, or
\* it failed part-way), no step changes the five files, and a save() changes
\* nothing at all, whatever was added, remembered or decayed before it
C40_SaveNeedsCompletedLoad ==
    [][(lib_pc \in {"start", "failed"}) =>
          /\ lib_files' = lib_files
          /\ (last_op' = "save") => memory_lib' = memory_lib]_vars

\* a save after a load that failed on the second file, with an episodic entry
\* added since: the first file is still absent and the second still cut short
C40_Witness ==
    /\ last_op = "save"
    /\ lib_pc = "failed"
    /\ ~memory_lib._loaded
    /\ memory_lib.collections[1] # <<>>
    /\ lib_files[1] = <<>>
    /\ lib_files[2] = <<"saved, cut short">>

\* every component from its start-up values
Init ==
    /\ IntentIdle /\ NeedsIdle /\ MoodIdle /\ FusionIdle /\ EmotionIdle /\ MemoryIdle
    /\ now = 0 /\ last_op = "init" /\ ops = 0 /\ ExtIdle

Next == \/ NextIntent \/ NextNeeds \/ NextMood \/ NextFusion \/ NextEmotion \/ NextMemory
        \/ NextInitiative \/ NextBridge \/ NextLoop \/ NextStartup
        \/ NextHandle \/ NextPersist \/ NextAvoid \/ NextLibrary \/ NextCycle
        \/ NextIdle \/ NextPrivacy \/ NextGreet \/ NextWake \/ NextSave

Spec == Init /\ [][Next]_vars

====
